---- MODULE Spec2Model ----
(***************************************************************************)
(* kube-ipam: the address-pool model (types/pool.go, types/network.go),    *)
(* the local cache (store/kube/cache.go) and the reservation coordinator   *)
(* (store/kube/store.go) in front of the Kubernetes API server.            *)
(*                                                                         *)
(* Strings are sequences of one-character strings, net.IP values are       *)
(* sequences of bytes (length 0 is Go's nil, 4 is IPv4, 16 is the long     *)
(* form), Go maps are functions whose DOMAIN is the set of present keys.   *)
(***************************************************************************)
EXTENDS Integers, Sequences, FiniteSets, TLC

VARIABLES
    kUsingIPs,          \* API server: UsingIP objects by name
    kLastReservedIPs,   \* API server: LastReservedIP objects by name
    kNetworks,          \* API server: Network objects by name
    kRV,                \* API server: last resourceVersion handed out
    cache,              \* cache[p]: the three maps of process p's Cache
    informer,           \* informer[p]: undelivered notifications, per kind
    mu,                 \* mu[p]: the caller holding Store.RWMutex of p, or 0
    pc,                 \* pc[c]: where caller c is inside its call
    cur,                \* cur[c]: the call caller c is executing
    last,               \* last[c]: <<>> or <<what c's Reserve of the scenario returned>>
    calls,              \* number of calls started so far
    race,               \* <<>> or <<the concurrent-Reserve scenario running>>
    granted,            \* granted[k]: Reserve calls answered true since k was last deleted
    released,           \* released[k]: a Release has deleted the in-use object k
    cmu,                \* Cache.RWMutex of the cache whose lock steps are followed
    thr,                \* thr[t]: where thread t is inside a Cache method
    ty                  \* a call of a function of package types or utils: input and result

vars == <<kUsingIPs, kLastReservedIPs, kNetworks, kRV, cache, informer, mu,
          pc, cur, last, calls, race, granted, released, cmu, thr, ty>>

-----------------------------------------------------------------------------
(* Bounds *)

NumCallers == 3
MaxCalls == 2

Callers == 1..NumCallers
Procs == {1, 2}
\* caller 1 and caller 2 share process 1, every other caller runs in process 2
ProcOf(c) == IF c <= 2 THEN 1 ELSE 2

\* one caller for each process: the callers of a process take turns under
\* its lock, so more of them write nothing that one of them does not
Writers == {c \in Callers : \A d \in Callers : ProcOf(d) = ProcOf(c) => c <= d}

-----------------------------------------------------------------------------
(* Go maps *)

Put(m, k, v) == [x \in (DOMAIN m) \cup {k} |-> IF x = k THEN v ELSE m[x]]
Del(m, k) == [x \in (DOMAIN m) \ {k} |-> m[x]]
Has(m, k) == k \in DOMAIN m
EmptyMap == << >>

-----------------------------------------------------------------------------
(* Strings and addresses *)

Digits == <<"0", "1", "2", "3", "4", "5", "6", "7", "8", "9">>

RECURSIVE Itoa(_)
Itoa(n) == IF n < 10 THEN <<Digits[n + 1]>>
           ELSE Itoa(n \div 10) \o <<Digits[(n % 10) + 1]>>

NilIP == << >>

V4InV6Prefix == <<0, 0, 0, 0, 0, 0, 0, 0, 0, 0, 255, 255>>

\* net.IP.To4: the 4-byte form, or nil when the address has none
To4(ip) ==
    IF Len(ip) = 4 THEN ip
    ELSE IF Len(ip) = 16 /\ SubSeq(ip, 1, 12) = V4InV6Prefix THEN SubSeq(ip, 13, 16)
    ELSE NilIP

\* net.IP.String for nil and for addresses with a 4-byte form
IPString(ip) ==
    IF Len(ip) = 0 THEN <<"<", "n", "i", "l", ">">>
    ELSE IF To4(ip) # NilIP
         THEN LET b == To4(ip)
              IN  Itoa(b[1]) \o <<".">> \o Itoa(b[2]) \o <<".">> \o Itoa(b[3])
                  \o <<".">> \o Itoa(b[4])
         ELSE <<"?">>

ReplaceChar(s, old, new) == [i \in 1..Len(s) |-> IF s[i] = old THEN new ELSE s[i]]

\* a key derivation that puts an underscore for the dot
ToKubeName_Underscore(ipstr) == ReplaceChar(ipstr, ".", "_")

ToKubeName(ipstr) == ReplaceChar(ipstr, ".", "-")

ToIP(kubeName) == ReplaceChar(kubeName, "-", ".")

-----------------------------------------------------------------------------
(* Bytes, masks and address arithmetic (package net and the CNI ip package,
   as types/pool.go uses them) *)

RECURSIVE BitAnd(_, _)
BitAnd(a, b) ==
    IF a = 0 \/ b = 0 THEN 0
    ELSE (a % 2) * (b % 2) + 2 * BitAnd(a \div 2, b \div 2)

BitOr(a, b) == a + b - BitAnd(a, b)

ByteNot(a) == 255 - a

\* number of leading one bits of a byte, -1 when a one follows a zero
RECURSIVE LeadingOnes(_, _)
LeadingOnes(v, bit) ==
    IF bit = 0 THEN 0
    ELSE IF v >= bit THEN
            LET r == LeadingOnes(v - bit, bit \div 2)
            IN  IF r = -1 THEN -1 ELSE r + 1
         ELSE IF v = 0 THEN 0 ELSE -1

\* net.simpleMaskLength from byte i on
RECURSIVE MaskLengthFrom(_, _)
MaskLengthFrom(mask, i) ==
    IF i > Len(mask) THEN 0
    ELSE IF mask[i] = 255
         THEN LET r == MaskLengthFrom(mask, i + 1)
              IN  IF r = -1 THEN -1 ELSE r + 8
         ELSE IF LeadingOnes(mask[i], 128) = -1 THEN -1
              ELSE IF \E j \in (i + 1)..Len(mask) : mask[j] # 0 THEN -1
                   ELSE LeadingOnes(mask[i], 128)

\* net.IPMask.Size
MaskSize(mask) ==
    IF MaskLengthFrom(mask, 1) = -1 THEN [ones |-> 0, bits |-> 0]
    ELSE [ones |-> MaskLengthFrom(mask, 1), bits |-> Len(mask) * 8]

\* net.CIDRMask for IPv4
RECURSIVE MaskByte(_)
MaskByte(n) == IF n <= 0 THEN 0 ELSE IF n >= 8 THEN 255 ELSE 128 + (MaskByte(n - 1) \div 2)

CIDRMask(ones) == [i \in 1..4 |-> MaskByte(ones - 8 * (i - 1))]

IPNet(ip, ones) == [IP |-> ip, Mask |-> CIDRMask(ones)]

\* net.IP.Mask
IPMasked(ip, mask) ==
    LET m == IF Len(mask) = 16 /\ Len(ip) = 4 /\ (\A i \in 1..12 : mask[i] = 255)
             THEN SubSeq(mask, 13, 16) ELSE mask
        a == IF Len(m) = 4 /\ Len(ip) = 16 /\ SubSeq(ip, 1, 12) = V4InV6Prefix
             THEN SubSeq(ip, 13, 16) ELSE ip
    IN  IF Len(a) # Len(m) THEN NilIP
        ELSE [i \in 1..Len(a) |-> BitAnd(a[i], m[i])]

\* net.IP.To16
To16(ip) ==
    IF Len(ip) = 4 THEN V4InV6Prefix \o ip
    ELSE IF Len(ip) = 16 THEN ip
    ELSE NilIP

\* net.IP.Equal
IPEqual(a, b) ==
    IF Len(a) = Len(b) THEN a = b
    ELSE IF Len(a) = 4 /\ Len(b) = 16 THEN V4InV6Prefix \o a = b
    ELSE IF Len(a) = 16 /\ Len(b) = 4 THEN a = V4InV6Prefix \o b
    ELSE FALSE

\* net.IPNet.Contains
IPNetContains(n, ip) ==
    LET nn == IF To4(n.IP) # NilIP THEN To4(n.IP) ELSE n.IP
        m == IF Len(n.Mask) = 16 /\ Len(nn) = 4 THEN SubSeq(n.Mask, 13, 16) ELSE n.Mask
        ok == /\ Len(nn) \in {4, 16}
              /\ Len(n.Mask) \in {4, 16}
              /\ Len(n.Mask) = 4 => Len(nn) = 4
        x == IF To4(ip) # NilIP THEN To4(ip) ELSE ip
    IN  /\ ok
        /\ Len(x) = Len(nn)
        /\ \A i \in 1..Len(x) : BitAnd(nn[i], m[i]) = BitAnd(x[i], m[i])

\* A big.Int is kept as its big-endian bytes without leading zero bytes
\* (what big.Int.Bytes returns); big.Int.SetBytes drops the leading zeros
RECURSIVE SetBytes(_)
SetBytes(b) == IF Len(b) > 0 /\ b[1] = 0 THEN SetBytes(Tail(b)) ELSE b

\* big.Int.Add(i, 1)
RECURSIVE BigInc(_)
BigInc(b) ==
    IF Len(b) = 0 THEN <<1>>
    ELSE IF b[Len(b)] < 255 THEN [b EXCEPT ![Len(b)] = @ + 1]
    ELSE BigInc(SubSeq(b, 1, Len(b) - 1)) \o <<0>>

\* big.Int.Cmp
BigCmp(a, b) ==
    IF Len(a) < Len(b) THEN -1
    ELSE IF Len(a) > Len(b) THEN 1
    ELSE IF a = b THEN 0
    ELSE LET i == CHOOSE j \in 1..Len(a) :
                      a[j] # b[j] /\ \A k \in 1..(j - 1) : a[k] = b[k]
         IN  IF a[i] < b[i] THEN -1 ELSE 1

\* ip.ipToInt
IPToInt(ip) == IF To4(ip) # NilIP THEN SetBytes(To4(ip)) ELSE SetBytes(To16(ip))

\* ip.NextIP: intToIP hands back the bytes of the sum
NextIP(ip) == BigInc(IPToInt(ip))

\* ip.Cmp
IPCmp(a, b) == BigCmp(IPToInt(a), IPToInt(b))

\* net.IPNet.String for a mask of ones followed by zeros
IPNetString(n) == IPString(n.IP) \o <<"/">> \o Itoa(MaskSize(n.Mask).ones)

-----------------------------------------------------------------------------
(* types.Pool (types/pool.go).  A pool is a record; Subnet and VlanID are
   << >> for nil or a one-element sequence *)

Pool(name, start, end, gateway, subnet, vlan) ==
    [Name |-> name, PoolStart |-> start, PoolEnd |-> end, Gateway |-> gateway,
     Subnet |-> subnet, VlanID |-> vlan]

\* canonicalizeIP: an error when the address has no 4-byte form; the address
\* itself is left as it is
CanonicalizeIPFails(ip) == To4(ip) = NilIP

\* a Contains whose range ends before PoolEnd
PoolContains_ExclusiveEnd(p, addr) ==
    /\ ~CanonicalizeIPFails(addr)
    /\ IPNetContains(p.Subnet[1], addr)
    /\ p.PoolStart # NilIP => IPCmp(addr, p.PoolStart) >= 0
    /\ p.PoolEnd # NilIP => IPCmp(addr, p.PoolEnd) < 0

\* Pool.Contains
PoolContains(p, addr) ==
    /\ ~CanonicalizeIPFails(addr)
    /\ IPNetContains(p.Subnet[1], addr)
    /\ p.PoolStart # NilIP => IPCmp(addr, p.PoolStart) >= 0
    /\ p.PoolEnd # NilIP => IPCmp(addr, p.PoolEnd) <= 0

\* a VLAN check without the reserved range 1006..1024
VlanInvalid_NoReservedRange(v) == v <= 0 \/ v > 4094

VlanInvalid(v) == v <= 0 \/ (v > 1005 /\ v < 1025) \/ v > 4094

\* a Validate that looks for the subnet before it looks for the gateway
Validate_SubnetBeforeGateway(p) ==
    IF p.Name = "" THEN "EmptyName"
    ELSE IF p.VlanID # << >> /\ VlanInvalid(p.VlanID[1]) THEN "InvalidVlan"
    ELSE IF p.Subnet = << >> THEN "NoSubnet"
    ELSE IF p.Gateway = NilIP THEN "NoGateway"
    ELSE LET sn == p.Subnet[1]
             size == MaskSize(sn.Mask)
         IN  IF CanonicalizeIPFails(sn.IP) THEN "NotIPv4"
             ELSE IF size.ones > size.bits - 2 THEN "SubnetTooSmall"
             ELSE IF Len(sn.IP) # Len(sn.Mask) THEN "VersionMismatch"
             ELSE IF ~IPEqual(sn.IP, IPMasked(sn.IP, sn.Mask)) THEN "HostBitsSet"
             ELSE IF ~IPNetContains(sn, p.Gateway) THEN "GatewayNotInSubnet"
             ELSE IF p.PoolStart # NilIP /\ CanonicalizeIPFails(p.PoolStart) THEN "NotIPv4"
             ELSE IF p.PoolStart # NilIP /\ ~PoolContains(p, p.PoolStart)
                  THEN "PoolStartNotInSubnet"
             ELSE IF p.PoolEnd # NilIP /\ CanonicalizeIPFails(p.PoolEnd) THEN "NotIPv4"
             ELSE IF p.PoolEnd # NilIP /\ ~PoolContains(p, p.PoolEnd)
                  THEN "PoolEndNotInSubnet"
             ELSE "nil"

\* Pool.Validate: "nil" or the reason of the first check that fails
Validate(p) ==
    IF p.Name = "" THEN "EmptyName"
    ELSE IF p.VlanID # << >> /\ VlanInvalid(p.VlanID[1]) THEN "InvalidVlan"
    ELSE IF p.Gateway = NilIP THEN "NoGateway"
    ELSE IF p.Subnet = << >> THEN "NoSubnet"
    ELSE LET sn == p.Subnet[1]
             size == MaskSize(sn.Mask)
         IN  IF CanonicalizeIPFails(sn.IP) THEN "NotIPv4"
             ELSE IF size.ones > size.bits - 2 THEN "SubnetTooSmall"
             ELSE IF Len(sn.IP) # Len(sn.Mask) THEN "VersionMismatch"
             ELSE IF ~IPEqual(sn.IP, IPMasked(sn.IP, sn.Mask)) THEN "HostBitsSet"
             ELSE IF ~IPNetContains(sn, p.Gateway) THEN "GatewayNotInSubnet"
             ELSE IF p.PoolStart # NilIP /\ CanonicalizeIPFails(p.PoolStart) THEN "NotIPv4"
             ELSE IF p.PoolStart # NilIP /\ ~PoolContains(p, p.PoolStart)
                  THEN "PoolStartNotInSubnet"
             ELSE IF p.PoolEnd # NilIP /\ CanonicalizeIPFails(p.PoolEnd) THEN "NotIPv4"
             ELSE IF p.PoolEnd # NilIP /\ ~PoolContains(p, p.PoolEnd)
                  THEN "PoolEndNotInSubnet"
             ELSE "nil"

\* a lastIP that hands back the broadcast address
LastIP_Broadcast(sn) ==
    [i \in 1..Len(sn.IP) |-> BitOr(sn.IP[i], ByteNot(sn.Mask[i]))]

\* lastIP: the broadcast address, its fourth byte decremented (a byte wraps)
\* when the subnet address has a 4-byte form
LastIP(sn) ==
    LET end == [i \in 1..Len(sn.IP) |-> BitOr(sn.IP[i], ByteNot(sn.Mask[i]))]
    IN  IF To4(sn.IP) # NilIP THEN [end EXCEPT ![4] = (@ + 255) % 256] ELSE end

\* a Canonicalize that sets PoolStart whether or not one was supplied
Canonicalize_OverwriteStart(p) ==
    IF Validate(p) # "nil" THEN [err |-> Validate(p), pool |-> p]
    ELSE [err |-> "nil",
          pool |-> [p EXCEPT !.PoolStart = NextIP(p.Subnet[1].IP),
                             !.PoolEnd = IF @ = NilIP THEN LastIP(p.Subnet[1]) ELSE @]]

\* Pool.Canonicalize: the error, and the pool as it is afterwards
Canonicalize(p) ==
    IF Validate(p) # "nil" THEN [err |-> Validate(p), pool |-> p]
    ELSE [err |-> "nil",
          pool |-> [p EXCEPT !.PoolStart = IF @ = NilIP THEN NextIP(p.Subnet[1].IP) ELSE @,
                             !.PoolEnd = IF @ = NilIP THEN LastIP(p.Subnet[1]) ELSE @]]

\* the first and last address of a pool's effective range: the subnet's
\* bounds, narrowed by PoolStart and PoolEnd where set
RangeLo(p) ==
    IF p.PoolStart # NilIP THEN IPToInt(p.PoolStart)
    ELSE IPToInt(IPMasked(p.Subnet[1].IP, p.Subnet[1].Mask))

RangeHi(p) ==
    IF p.PoolEnd # NilIP THEN IPToInt(p.PoolEnd)
    ELSE LET sn == p.Subnet[1]
         IN  IPToInt([i \in 1..Len(sn.IP) |-> BitOr(sn.IP[i], ByteNot(sn.Mask[i]))])

\* Pool.Overlaps
Overlaps(p, q) ==
    /\ BigCmp(RangeLo(p), RangeHi(q)) <= 0
    /\ BigCmp(RangeLo(q), RangeHi(p)) <= 0

-----------------------------------------------------------------------------
(* The wire form of a pool (resourcev1.Pool) and the translation back
   (types.GetPoolFromCRD, types.GetNetworkFromCRD) *)

\* the resourcev1.Pool that AddPool appends for a canonical pool
PoolToCRD(p) ==
    [name |-> p.Name, poolStart |-> IPString(p.PoolStart), poolEnd |-> IPString(p.PoolEnd),
     gateway |-> IPString(p.Gateway), subnet |-> IPNetString(p.Subnet[1]),
     vlanId |-> p.VlanID]

DigitVal(ch) == IF \E i \in 1..10 : Digits[i] = ch
                THEN (CHOOSE i \in 1..10 : Digits[i] = ch) - 1 ELSE -1

\* the decimal number a string of one to three digits spells, else -1
RECURSIVE Atoi(_)
Atoi(s) ==
    IF Len(s) = 0 \/ Len(s) > 3 THEN -1
    ELSE IF DigitVal(s[Len(s)]) = -1 THEN -1
    ELSE IF Len(s) = 1 THEN DigitVal(s[1])
    ELSE LET r == Atoi(SubSeq(s, 1, Len(s) - 1))
         IN  IF r = -1 THEN -1 ELSE 10 * r + DigitVal(s[Len(s)])

\* strings.Split
RECURSIVE Split(_, _)
Split(s, sep) ==
    IF \A i \in 1..Len(s) : s[i] # sep THEN <<s>>
    ELSE LET i == CHOOSE j \in 1..Len(s) : s[j] = sep /\ \A k \in 1..(j - 1) : s[k] # sep
         IN  <<SubSeq(s, 1, i - 1)>> \o Split(SubSeq(s, i + 1, Len(s)), sep)

\* net.ParseIP on dotted decimal text: the 16-byte form, nil for anything else
ParseIP(s) ==
    LET f == Split(s, ".")
    IN  IF Len(f) = 4 /\ \A i \in 1..4 : Atoi(f[i]) \in 0..255
        THEN V4InV6Prefix \o [i \in 1..4 |-> Atoi(f[i])]
        ELSE NilIP

\* net.ParseCIDR on "a.b.c.d/n": the network as an IPNet, << >> on an error
ParseCIDR(s) ==
    LET f == Split(s, "/")
    IN  IF Len(f) = 2 /\ ParseIP(f[1]) # NilIP /\ Atoi(f[2]) \in 0..32
        THEN <<[IP |-> IPMasked(To4(ParseIP(f[1])), CIDRMask(Atoi(f[2]))),
                Mask |-> CIDRMask(Atoi(f[2]))]>>
        ELSE << >>

\* types.GetPoolFromCRD: << >> when the subnet or an address does not parse
GetPoolFromCRD(w) ==
    IF \/ ParseCIDR(w.subnet) = << >>
       \/ ParseIP(w.gateway) = NilIP
       \/ ParseIP(w.poolStart) = NilIP
       \/ ParseIP(w.poolEnd) = NilIP
    THEN << >>
    ELSE <<Pool(w.name, ParseIP(w.poolStart), ParseIP(w.poolEnd), ParseIP(w.gateway),
                ParseCIDR(w.subnet), w.vlanId)>>

\* types.GetNetworkFromCRD: << >> (nil) when a pool does not translate
GetNetworkFromCRD(obj) ==
    IF \E i \in 1..Len(obj.spec.pools) : GetPoolFromCRD(obj.spec.pools[i]) = << >>
    THEN << >>
    ELSE <<[Name |-> obj.name,
            Pools |-> [i \in 1..Len(obj.spec.pools) |-> GetPoolFromCRD(obj.spec.pools[i])[1]]]>>

-----------------------------------------------------------------------------
(* The inputs the callers draw from *)

ReserveIPs == {<<192, 168, 0, 10>>}
NetworkNames == {"n1"}
PoolNames == {"p1"}
KeyOf(ip) == ToKubeName(IPString(ip))

-----------------------------------------------------------------------------
(* The API server (the backing store), as the coordinator's code relies on it *)

\* an object as the API server returns it
Object(name, rv, spec) ==
    [name |-> name, resourceVersion |-> rv, deletionTimestamp |-> FALSE, spec |-> spec]

\* Create: refused when the name exists, and when the object sent carries a
\* resourceVersion (sentRV # 0); otherwise stored under a fresh resourceVersion
KubeCreate(tbl, name, sentRV, spec, rv) ==
    IF Has(tbl, name) THEN [err |-> "AlreadyExists", tbl |-> tbl]
    ELSE IF sentRV # 0 THEN [err |-> "Invalid", tbl |-> tbl]
    ELSE [err |-> "nil", tbl |-> Put(tbl, name, Object(name, rv, spec))]

\* Get: NotFound for a missing name
KubeGet(tbl, name) ==
    IF Has(tbl, name) THEN [err |-> "nil", obj |-> <<tbl[name]>>]
    ELSE [err |-> "NotFound", obj |-> << >>]

\* Update: NotFound for a missing name, Conflict when the object sent does not
\* carry the stored resourceVersion
KubeUpdate(tbl, name, sentRV, spec, rv) ==
    IF ~Has(tbl, name) THEN [err |-> "NotFound", tbl |-> tbl]
    ELSE IF tbl[name].resourceVersion # sentRV THEN [err |-> "Conflict", tbl |-> tbl]
    ELSE [err |-> "nil", tbl |-> Put(tbl, name, Object(name, rv, spec))]

\* Delete: NotFound for a missing name
KubeDelete(tbl, name) ==
    IF Has(tbl, name) THEN [err |-> "nil", tbl |-> Del(tbl, name)]
    ELSE [err |-> "NotFound", tbl |-> tbl]

\* a request may also fail without reaching the stored objects
StoreFailures == {FALSE, TRUE}

\* the watch feeds every process's informer of that kind, in order (a
\* specification follows the informers its Init gives the processes)
Event(type, old, obj) == [type |-> type, old |-> old, obj |-> obj]

Notify(inf, kind, ev) ==
    [p \in Procs |-> IF kind \in DOMAIN inf[p]
                     THEN [inf[p] EXCEPT ![kind] = Append(@, ev)]
                     ELSE inf[p]]

-----------------------------------------------------------------------------
(* Cache reads (store/kube/cache.go) *)

\* a lookup by the dotted address, where the map is keyed by the object name
IsIPUsing_ByAddress(c, key) == Has(c.usingIPs, ToIP(key))

\* Cache.IsIPUsing
IsIPUsing(c, key) == Has(c.usingIPs, key)

\* Cache.GetNetwork: the stored network, << >> (nil) when there is none or
\* when the one stored is nil
CacheGetNetwork(c, name) == IF Has(c.networks, name) THEN c.networks[name] ELSE << >>

\* Store.GetNetwork: a nil from the cache is the error "not in cache"
StoreGetNetwork(c, name) ==
    LET networkCache == CacheGetNetwork(c, name)
    IN  IF networkCache = << >> THEN [net |-> << >>, err |-> "NotInCache"]
        ELSE [net |-> networkCache, err |-> "nil"]

NewCache == [networks |-> EmptyMap, usingIPs |-> EmptyMap, lastReservedIPs |-> EmptyMap]

-----------------------------------------------------------------------------
(* Cache.RWMutex and the threads that enter the Cache's methods: one handler
   thread per informer, and the threads of the callers that read.  The
   protocols below take a Cache method as one step; the cache protocol
   further down follows the lock steps of one process's Cache. *)

Handlers == {"networks", "usingIPs", "lastReservedIPs"}

Readers == {"reader1", "reader2"}

Threads == Handlers \cup Readers

\* sync.RWMutex: w is the writer that has announced itself ("" for none),
\* held tells that it has the lock, readers are the threads holding it for
\* reading
NewRWMutex == [w |-> "", held |-> FALSE, readers |-> {}]

NoEvent == [type |-> "none"]

NoThread == [pc |-> "idle", ev |-> NoEvent, read |-> "none", key |-> "", done |-> FALSE,
             before |-> << >>, found |-> FALSE]

\* no function of package types or utils has been called
NoTypes == [op |-> "none"]

-----------------------------------------------------------------------------
(* Callers *)

NoCall ==
    [op |-> "none", network |-> "", pool |-> "", ip |-> NilIP,
     hit |-> FALSE, absent |-> FALSE, wasReleased |-> FALSE, failed |-> FALSE,
     outcome |-> "none", created |-> FALSE, lriErr |-> "none",
     reqs |-> 0, lriWrites |-> 0, got |-> << >>, reserved |-> FALSE, err |-> "nil",
     given |-> << >>, arg |-> << >>, before |-> << >>, inStore |-> << >>, after |-> << >>,
     changed |-> FALSE]

Idle(c) == pc[c] = "idle"

InRace == race # << >>

\* a start that does not wait for the Store's lock
MayStart_NoLock(c) ==
    /\ Idle(c)
    /\ IF InRace THEN last[c] = << >> ELSE calls < MaxCalls

\* a caller may start a call once s.Lock() succeeds: any call while the
\* budget lasts, and in the concurrent-Reserve scenario one Reserve of the
\* scenario's address each
MayStart(c) ==
    /\ Idle(c)
    /\ mu[ProcOf(c)] = 0
    /\ IF InRace THEN last[c] = << >> ELSE calls < MaxCalls

Started == IF InRace THEN calls ELSE calls + 1

-----------------------------------------------------------------------------
(* Store.Reserve *)

\* a Reserve that goes to the API server whatever the cache says
ReserveAfterPrecheck_NoShortcut(hit) == "create"

\* the branch after the cache pre-check
ReserveAfterPrecheck(hit) == IF hit THEN "ret" ELSE "create"

\* Store.Reserve up to the cache pre-check
ReserveEnter(c, network, pool, ip) ==
    /\ MayStart(c)
    /\ InRace => ip = race[1].ip
    /\ LET key == ToKubeName(IPString(ip))
           hit == Has(cache[ProcOf(c)].usingIPs, key)
       IN  /\ cur' = [cur EXCEPT ![c] =
                        [NoCall EXCEPT !.op = "Reserve", !.network = network,
                                       !.pool = pool, !.ip = ip, !.hit = hit,
                                       !.absent = ~Has(kUsingIPs, KeyOf(ip)),
                                       !.wasReleased = released[KeyOf(ip)]]]
           /\ pc' = [pc EXCEPT ![c] =
                       ReserveAfterPrecheck(IsIPUsing(cache[ProcOf(c)], key))]
    /\ mu' = [mu EXCEPT ![ProcOf(c)] = c]
    /\ calls' = Started
    /\ UNCHANGED <<ty, cmu, thr, kUsingIPs, kLastReservedIPs, kNetworks, kRV, cache, informer,
                   last, race, granted, released>>

\* a createUsingIP that takes an existing object for its own
CreateUsingIPResult_TakesExisting(err) ==
    IF err = "AlreadyExists" THEN [reserved |-> TRUE, err |-> "nil"]
    ELSE IF err # "nil" THEN [reserved |-> FALSE, err |-> err]
    ELSE [reserved |-> TRUE, err |-> "nil"]

\* a createUsingIP that drops the API server's answer
CreateUsingIPResult_IgnoresError(err) == [reserved |-> TRUE, err |-> "nil"]

\* Store.createUsingIP: what Reserve gets for the API server's answer
CreateUsingIPResult(err) ==
    IF err = "AlreadyExists" THEN [reserved |-> FALSE, err |-> "nil"]
    ELSE IF err # "nil" THEN [reserved |-> FALSE, err |-> err]
    ELSE [reserved |-> TRUE, err |-> "nil"]

\* a Reserve that updates the marker whether or not the address was reserved
ReserveAfterCreate_Always(reserved) == "lri_get"

\* Reserve updates the marker only when the address was reserved
ReserveAfterCreate(reserved) == IF reserved THEN "lri_get" ELSE "ret"

UsingIPSpec(c, call) ==
    [podName |-> c, podNamespace |-> "ns", network |-> call.network, pool |-> call.pool]

\* Store.createUsingIP, called by Reserve
ReserveCreate(c) ==
    /\ pc[c] = "create"
    /\ \E fail \in StoreFailures :
         LET key == ToKubeName(IPString(cur[c].ip))
             ans == IF fail THEN [err |-> "StoreError", tbl |-> kUsingIPs]
                    ELSE KubeCreate(kUsingIPs, key, 0, UsingIPSpec(c, cur[c]), kRV + 1)
             res == CreateUsingIPResult(ans.err)
         IN  /\ kUsingIPs' = ans.tbl
             /\ kRV' = IF ans.err = "nil" THEN kRV + 1 ELSE kRV
             /\ informer' = IF ans.err = "nil"
                            THEN Notify(informer, "usingIPs",
                                        Event("add", ans.tbl[key], ans.tbl[key]))
                            ELSE informer
             /\ cur' = [cur EXCEPT ![c].outcome = IF ans.err = "nil" THEN "ok" ELSE ans.err,
                                   ![c].absent = ~Has(kUsingIPs, key),
                                   ![c].wasReleased = released[key],
                                   ![c].failed = fail,
                                   ![c].created = (ans.tbl # kUsingIPs),
                                   ![c].reqs = @ + 1,
                                   ![c].reserved = res.reserved,
                                   ![c].err = res.err]
             /\ granted' = IF res.reserved
                           THEN [granted EXCEPT ![key] = @ + 1] ELSE granted
             /\ pc' = [pc EXCEPT ![c] = ReserveAfterCreate(res.reserved)]
    /\ UNCHANGED <<ty, cmu, thr, kLastReservedIPs, kNetworks, cache, mu, last, calls, race, released>>

\* Store.updateLastReservedIP: the Get, and the branch on its answer
UpdateLRIAfterGet(err) ==
    IF err = "nil" THEN "lri_update"
    ELSE IF err = "NotFound" THEN "lri_create"
    ELSE "ret"

ReserveLRIGet(c) ==
    /\ pc[c] = "lri_get"
    /\ \E fail \in StoreFailures :
         LET ans == IF fail THEN [err |-> "StoreError", obj |-> << >>]
                    ELSE KubeGet(kLastReservedIPs, cur[c].network)
         IN  /\ cur' = [cur EXCEPT ![c].got = ans.obj,
                                   ![c].failed = @ \/ fail,
                                   ![c].reqs = @ + 1,
                                   ![c].lriErr = IF ans.err \in {"nil", "NotFound"}
                                                 THEN @ ELSE ans.err]
             /\ pc' = [pc EXCEPT ![c] = UpdateLRIAfterGet(ans.err)]
    /\ UNCHANGED <<ty, cmu, thr, kUsingIPs, kLastReservedIPs, kNetworks, kRV, cache, informer,
                   mu, last, calls, race, granted, released>>

\* a marker that leaves out the pool
LRISpec_NoPool(call) == [ip |-> IPString(call.ip), poolName |-> ""]

\* the LastReservedIPSpec that createLastReservedIP and updateLastReservedIP
\* send
LRISpec(call) == [ip |-> IPString(call.ip), poolName |-> call.pool]

\* Store.createLastReservedIP, when the Get answered NotFound
ReserveLRICreate(c) ==
    /\ pc[c] = "lri_create"
    /\ \E fail \in StoreFailures :
         LET name == cur[c].network
             ans == IF fail THEN [err |-> "StoreError", tbl |-> kLastReservedIPs]
                    ELSE KubeCreate(kLastReservedIPs, name, 0, LRISpec(cur[c]), kRV + 1)
         IN  /\ kLastReservedIPs' = ans.tbl
             /\ kRV' = IF ans.err = "nil" THEN kRV + 1 ELSE kRV
             /\ informer' = IF ans.err = "nil"
                            THEN Notify(informer, "lastReservedIPs",
                                        Event("add", ans.tbl[name], ans.tbl[name]))
                            ELSE informer
             /\ cur' = [cur EXCEPT ![c].lriErr = ans.err,
                                   ![c].failed = @ \/ fail,
                                   ![c].reqs = @ + 1,
                                   ![c].lriWrites = @ + 1]
             /\ pc' = [pc EXCEPT ![c] = "ret"]
    /\ UNCHANGED <<ty, cmu, thr, kUsingIPs, kNetworks, cache, mu, last, calls, race, granted, released>>

\* Store.updateLastReservedIP: the Update of the object the Get returned
ReserveLRIUpdate(c) ==
    /\ pc[c] = "lri_update"
    /\ \E fail \in StoreFailures :
         LET name == cur[c].network
             old == cur[c].got[1]
             ans == IF fail THEN [err |-> "StoreError", tbl |-> kLastReservedIPs]
                    ELSE KubeUpdate(kLastReservedIPs, name, old.resourceVersion,
                                    LRISpec(cur[c]), kRV + 1)
         IN  /\ kLastReservedIPs' = ans.tbl
             /\ kRV' = IF ans.err = "nil" THEN kRV + 1 ELSE kRV
             /\ informer' = IF ans.err = "nil"
                            THEN Notify(informer, "lastReservedIPs",
                                        Event("update", kLastReservedIPs[name], ans.tbl[name]))
                            ELSE informer
             /\ cur' = [cur EXCEPT ![c].lriErr = ans.err,
                                   ![c].failed = @ \/ fail,
                                   ![c].reqs = @ + 1,
                                   ![c].lriWrites = @ + 1]
             /\ pc' = [pc EXCEPT ![c] = "ret"]
    /\ UNCHANGED <<ty, cmu, thr, kUsingIPs, kNetworks, cache, mu, last, calls, race, granted, released>>

\* a Reserve that hands the marker update's error to its caller
ReserveReturn_MarkerError(call) ==
    [reserved |-> call.reserved,
     err |-> IF call.reserved /\ call.lriErr \notin {"none", "nil"}
             THEN call.lriErr ELSE call.err,
     failed |-> call.failed]

\* what Reserve returns: createUsingIP's pair, whatever the marker update did
ReserveReturn(call) ==
    [reserved |-> call.reserved, err |-> call.err, failed |-> call.failed]

-----------------------------------------------------------------------------
(* Store.Release *)

ReleaseEnter(c, ip) ==
    /\ MayStart(c)
    /\ ~InRace
    /\ cur' = [cur EXCEPT ![c] = [NoCall EXCEPT !.op = "Release", !.ip = ip]]
    /\ pc' = [pc EXCEPT ![c] = "delete"]
    /\ mu' = [mu EXCEPT ![ProcOf(c)] = c]
    /\ calls' = Started
    /\ UNCHANGED <<ty, cmu, thr, kUsingIPs, kLastReservedIPs, kNetworks, kRV, cache, informer,
                   last, race, granted, released>>

\* Store.deleteUsingIP: Release returns the API server's answer as it is
DeleteUsingIPResult(err) == err

\* a Release that also takes the key out of its own process's cache
ReleaseDelete_WriteThrough(c) ==
    /\ pc[c] = "delete"
    /\ \E fail \in StoreFailures :
         LET key == ToKubeName(IPString(cur[c].ip))
             ans == IF fail THEN [err |-> "StoreError", tbl |-> kUsingIPs]
                    ELSE KubeDelete(kUsingIPs, key)
         IN  /\ kUsingIPs' = ans.tbl
             /\ informer' = IF ans.err = "nil"
                            THEN Notify(informer, "usingIPs",
                                        Event("delete", kUsingIPs[key], kUsingIPs[key]))
                            ELSE informer
             /\ cur' = [cur EXCEPT ![c].outcome = IF ans.err = "nil" THEN "ok" ELSE ans.err,
                                   ![c].absent = ~Has(kUsingIPs, key),
                                   ![c].failed = fail,
                                   ![c].reqs = @ + 1,
                                   ![c].err = DeleteUsingIPResult(ans.err)]
             /\ granted' = IF ans.err = "nil" THEN [granted EXCEPT ![key] = 0] ELSE granted
             /\ released' = IF ans.err = "nil" THEN [released EXCEPT ![key] = TRUE]
                            ELSE released
             /\ cache' = IF ans.err = "nil"
                         THEN [cache EXCEPT ![ProcOf(c)].usingIPs = Del(@, key)]
                         ELSE cache
             /\ pc' = [pc EXCEPT ![c] = "ret"]
    /\ UNCHANGED <<ty, cmu, thr, kLastReservedIPs, kNetworks, kRV, mu, last, calls, race>>

ReleaseDelete(c) ==
    /\ pc[c] = "delete"
    /\ \E fail \in StoreFailures :
         LET key == ToKubeName(IPString(cur[c].ip))
             ans == IF fail THEN [err |-> "StoreError", tbl |-> kUsingIPs]
                    ELSE KubeDelete(kUsingIPs, key)
         IN  /\ kUsingIPs' = ans.tbl
             /\ informer' = IF ans.err = "nil"
                            THEN Notify(informer, "usingIPs",
                                        Event("delete", kUsingIPs[key], kUsingIPs[key]))
                            ELSE informer
             /\ cur' = [cur EXCEPT ![c].outcome = IF ans.err = "nil" THEN "ok" ELSE ans.err,
                                   ![c].absent = ~Has(kUsingIPs, key),
                                   ![c].failed = fail,
                                   ![c].reqs = @ + 1,
                                   ![c].err = DeleteUsingIPResult(ans.err)]
             /\ granted' = IF ans.err = "nil" THEN [granted EXCEPT ![key] = 0] ELSE granted
             /\ released' = IF ans.err = "nil" THEN [released EXCEPT ![key] = TRUE]
                            ELSE released
             /\ pc' = [pc EXCEPT ![c] = "ret"]
    /\ UNCHANGED <<ty, cmu, thr, kLastReservedIPs, kNetworks, kRV, cache, mu, last, calls, race>>

-----------------------------------------------------------------------------
(* The deferred Unlock and the return *)

\* what the call in cur[c] returns to its caller
Result(call) ==
    IF call.op = "Reserve" THEN ReserveReturn(call)
    ELSE [reserved |-> FALSE, err |-> call.err, failed |-> call.failed]

Return(c) ==
    /\ pc[c] = "ret"
    /\ mu[ProcOf(c)] = c
    /\ mu' = [mu EXCEPT ![ProcOf(c)] = 0]
    /\ last' = IF InRace THEN [last EXCEPT ![c] = <<Result(cur[c])>>] ELSE last
    /\ cur' = [cur EXCEPT ![c] = NoCall]
    /\ pc' = [pc EXCEPT ![c] = "idle"]
    /\ UNCHANGED <<ty, cmu, thr, kUsingIPs, kLastReservedIPs, kNetworks, kRV, cache, informer,
                   calls, race, granted, released>>

-----------------------------------------------------------------------------
(* Notification handlers: Store.*ToCache / *InCache / *FromCache and the
   Cache methods they call *)

Pending(p, kind, type) ==
    /\ kind \in DOMAIN informer[p]
    /\ informer[p][kind] # << >>
    /\ informer[p][kind][1].type = type

Pop(p, kind) == [informer EXCEPT ![p][kind] = Tail(@)]

\* Cache.addUsingIP
CacheAddUsingIP(c, obj) == [c EXCEPT !.usingIPs = Put(@, obj.name, obj.spec.podName)]

\* Cache.updateUsingIP: the branch for a deletion marker deletes the key and
\* does not return, so the assignment after it puts the key back
CacheUpdateUsingIP(c, obj) ==
    LET d == IF obj.deletionTimestamp THEN [c EXCEPT !.usingIPs = Del(@, obj.name)] ELSE c
    IN  [d EXCEPT !.usingIPs = Put(@, obj.name, obj.spec.podName)]

\* a deleteUsingIP that leaves the key in the map
CacheDeleteUsingIP_Keep(c, obj) == c

\* Cache.deleteUsingIP
CacheDeleteUsingIP(c, obj) == [c EXCEPT !.usingIPs = Del(@, obj.name)]

\* Cache.addLastReservedIP; GetLastReservedIPFromCRD keeps the pool name and
\* parses the address, kept here in its wire form
CacheAddLastReservedIP(c, obj) ==
    [c EXCEPT !.lastReservedIPs = Put(@, obj.name, obj.spec)]

\* Cache.updateLastReservedIP
CacheUpdateLastReservedIP(c, obj) ==
    IF obj.deletionTimestamp
    THEN [c EXCEPT !.lastReservedIPs = Del(@, obj.name)]
    ELSE [c EXCEPT !.lastReservedIPs = Put(@, obj.name, obj.spec)]

\* Cache.deleteLastReservedIP
CacheDeleteLastReservedIP(c, obj) == [c EXCEPT !.lastReservedIPs = Del(@, obj.name)]

\* Cache.GetLastReservedIP: << >> is nil
CacheGetLastReservedIP(c, name) ==
    IF Has(c.lastReservedIPs, name) THEN <<c.lastReservedIPs[name]>> ELSE << >>

AddUsingIPToCache(p) ==
    /\ Pending(p, "usingIPs", "add")
    /\ cache' = [cache EXCEPT ![p] = CacheAddUsingIP(@, informer[p].usingIPs[1].obj)]
    /\ informer' = Pop(p, "usingIPs")
    /\ UNCHANGED <<ty, cmu, thr, kUsingIPs, kLastReservedIPs, kNetworks, kRV, mu, pc, cur, last,
                   calls, race, granted, released>>

DeleteUsingIPFromCache(p) ==
    /\ Pending(p, "usingIPs", "delete")
    /\ cache' = [cache EXCEPT ![p] = CacheDeleteUsingIP(@, informer[p].usingIPs[1].obj)]
    /\ informer' = Pop(p, "usingIPs")
    /\ UNCHANGED <<ty, cmu, thr, kUsingIPs, kLastReservedIPs, kNetworks, kRV, mu, pc, cur, last,
                   calls, race, granted, released>>

AddLastReservedIPToCache(p) ==
    /\ Pending(p, "lastReservedIPs", "add")
    /\ cache' = [cache EXCEPT ![p] =
                   CacheAddLastReservedIP(@, informer[p].lastReservedIPs[1].obj)]
    /\ informer' = Pop(p, "lastReservedIPs")
    /\ UNCHANGED <<ty, cmu, thr, kUsingIPs, kLastReservedIPs, kNetworks, kRV, mu, pc, cur, last,
                   calls, race, granted, released>>

UpdateLastReservedIPInCache(p) ==
    /\ Pending(p, "lastReservedIPs", "update")
    /\ LET ev == informer[p].lastReservedIPs[1]
       IN  cache' = IF ev.old.resourceVersion = ev.obj.resourceVersion THEN cache
                    ELSE [cache EXCEPT ![p] = CacheUpdateLastReservedIP(@, ev.obj)]
    /\ informer' = Pop(p, "lastReservedIPs")
    /\ UNCHANGED <<ty, cmu, thr, kUsingIPs, kLastReservedIPs, kNetworks, kRV, mu, pc, cur, last,
                   calls, race, granted, released>>

-----------------------------------------------------------------------------
(* The concurrent-Reserve scenario of the tests: with every caller idle and
   no in-use object for ip in the API server, each caller issues at most one
   Reserve of ip and nobody releases *)

\* the caches agree with the API server about key: no cache marks it and no
\* notification about it is still to be delivered
InSync(key) ==
    \A p \in Procs :
        /\ ~IsIPUsing(cache[p], key)
        /\ \A i \in 1..Len(informer[p].usingIPs) : informer[p].usingIPs[i].obj.name # key

StartRace(ip) ==
    /\ ~InRace
    /\ \A c \in Callers : Idle(c)
    /\ ~Has(kUsingIPs, KeyOf(ip))
    /\ race' = <<[ip |-> ip, synced |-> InSync(KeyOf(ip))]>>
    /\ last' = [c \in Callers |-> << >>]
    /\ calls' = 0
    /\ UNCHANGED <<ty, cmu, thr, kUsingIPs, kLastReservedIPs, kNetworks, kRV, cache, informer, mu,
                   pc, cur, granted, released>>

-----------------------------------------------------------------------------
(* The reservation protocol *)

NoEvents == [usingIPs |-> << >>]

Init ==
    /\ kUsingIPs = EmptyMap
    /\ kLastReservedIPs = EmptyMap
    /\ kNetworks = EmptyMap
    /\ kRV = 0
    /\ cache = [p \in Procs |-> NewCache]
    /\ informer = [p \in Procs |-> NoEvents]
    /\ mu = [p \in Procs |-> 0]
    /\ pc = [c \in Callers |-> "idle"]
    /\ cur = [c \in Callers |-> NoCall]
    /\ last = [c \in Callers |-> << >>]
    /\ calls = 0
    /\ race = << >>
    /\ granted = [k \in {KeyOf(ip) : ip \in ReserveIPs} |-> 0]
    /\ released = [k \in {KeyOf(ip) : ip \in ReserveIPs} |-> FALSE]
    /\ cmu = NewRWMutex
    /\ thr = [t \in Threads |-> NoThread]
    /\ ty = NoTypes

Next ==
    \/ \E c \in Callers, n \in NetworkNames, pl \in PoolNames, ip \in ReserveIPs :
          ReserveEnter(c, n, pl, ip)
    \/ \E c \in Callers : ReserveCreate(c)
    \/ \E c \in Callers : ReserveLRIGet(c)
    \/ \E c \in Callers : ReserveLRICreate(c)
    \/ \E c \in Callers : ReserveLRIUpdate(c)
    \/ \E c \in Callers, ip \in ReserveIPs : ReleaseEnter(c, ip)
    \/ \E c \in Callers : ReleaseDelete(c)
    \/ \E c \in Callers : Return(c)
    \/ \E p \in Procs : AddUsingIPToCache(p)
    \/ \E p \in Procs : DeleteUsingIPFromCache(p)
    \/ \E ip \in ReserveIPs : StartRace(ip)

Spec == Init /\ [][Next]_vars

-----------------------------------------------------------------------------
(* Network and pool management: Store.CreateNetwork, DeleteNetwork, AddPool,
   DelPool, and the network notification handlers *)

NetworkSpec(pools) == [pools |-> pools]

\* a CreateNetwork that does not look into the cache
CreateNetworkCheck_Skip(netc) == "nil"

\* Store.CreateNetwork: the check against the cache
CreateNetworkCheck(netc) == IF netc # << >> THEN "AlreadyExists" ELSE "nil"

CreateNetworkEnter(c, name) ==
    /\ MayStart(c)
    /\ ~InRace
    /\ LET netc == CacheGetNetwork(cache[ProcOf(c)], name)
           err == CreateNetworkCheck(netc)
       IN  /\ cur' = [cur EXCEPT ![c] =
                        [NoCall EXCEPT !.op = "CreateNetwork", !.network = name,
                                       !.before = netc, !.err = err]]
           /\ pc' = [pc EXCEPT ![c] = IF err # "nil" THEN "ret" ELSE "cn_create"]
    /\ mu' = [mu EXCEPT ![ProcOf(c)] = c]
    /\ calls' = Started
    /\ UNCHANGED <<ty, cmu, thr, kUsingIPs, kLastReservedIPs, kNetworks, kRV, cache, informer,
                   last, race, granted, released>>

\* a CreateNetwork that gives the new network a marker
CreateNetworkCreate_WithMarker(c) ==
    /\ pc[c] = "cn_create"
    /\ \E fail \in StoreFailures :
         LET name == cur[c].network
             ans == IF fail THEN [err |-> "StoreError", tbl |-> kNetworks]
                    ELSE KubeCreate(kNetworks, name, 0, NetworkSpec(<< >>), kRV + 1)
         IN  /\ kNetworks' = ans.tbl
             /\ kLastReservedIPs' =
                   IF ans.err = "nil"
                   THEN Put(kLastReservedIPs, name,
                            Object(name, kRV + 1,
                                   [ip |-> IPString(<<0, 0, 0, 0>>), poolName |-> ""]))
                   ELSE kLastReservedIPs
             /\ kRV' = IF ans.err = "nil" THEN kRV + 1 ELSE kRV
             /\ informer' = IF ans.err = "nil"
                            THEN Notify(informer, "networks",
                                        Event("add", ans.tbl[name], ans.tbl[name]))
                            ELSE informer
             /\ cur' = [cur EXCEPT ![c].failed = fail,
                                   ![c].reqs = @ + 1,
                                   ![c].changed = (ans.tbl # kNetworks),
                                   ![c].inStore = KubeGet(kNetworks, name).obj,
                                   ![c].after = KubeGet(ans.tbl, name).obj,
                                   ![c].err = ans.err]
             /\ pc' = [pc EXCEPT ![c] = "ret"]
    /\ UNCHANGED <<ty, cmu, thr, kUsingIPs, cache, mu, last, calls, race,
                   granted, released>>

\* the Create request of Store.CreateNetwork
CreateNetworkCreate(c) ==
    /\ pc[c] = "cn_create"
    /\ \E fail \in StoreFailures :
         LET name == cur[c].network
             ans == IF fail THEN [err |-> "StoreError", tbl |-> kNetworks]
                    ELSE KubeCreate(kNetworks, name, 0, NetworkSpec(<< >>), kRV + 1)
         IN  /\ kNetworks' = ans.tbl
             /\ kRV' = IF ans.err = "nil" THEN kRV + 1 ELSE kRV
             /\ informer' = IF ans.err = "nil"
                            THEN Notify(informer, "networks",
                                        Event("add", ans.tbl[name], ans.tbl[name]))
                            ELSE informer
             /\ cur' = [cur EXCEPT ![c].failed = fail,
                                   ![c].reqs = @ + 1,
                                   ![c].changed = (ans.tbl # kNetworks),
                                   ![c].inStore = KubeGet(kNetworks, name).obj,
                                   ![c].after = KubeGet(ans.tbl, name).obj,
                                   ![c].err = ans.err]
             /\ pc' = [pc EXCEPT ![c] = "ret"]
    /\ UNCHANGED <<ty, cmu, thr, kUsingIPs, kLastReservedIPs, cache, mu, last, calls, race,
                   granted, released>>

\* a DeleteNetwork that does not look at the cached pools
DeleteNetworkCheck_AnyPools(netc) == IF netc = << >> THEN "NotFound" ELSE "nil"

\* Store.DeleteNetwork: the checks against the cache
DeleteNetworkCheck(netc) ==
    IF netc = << >> THEN "NotFound"
    ELSE IF Len(netc[1].Pools) > 0 THEN "NotEmpty"
    ELSE "nil"

DeleteNetworkEnter(c, name) ==
    /\ MayStart(c)
    /\ ~InRace
    /\ LET netc == CacheGetNetwork(cache[ProcOf(c)], name)
           err == DeleteNetworkCheck(netc)
       IN  /\ cur' = [cur EXCEPT ![c] =
                        [NoCall EXCEPT !.op = "DeleteNetwork", !.network = name,
                                       !.before = netc, !.err = err]]
           /\ pc' = [pc EXCEPT ![c] = IF err # "nil" THEN "ret" ELSE "dn_delete"]
    /\ mu' = [mu EXCEPT ![ProcOf(c)] = c]
    /\ calls' = Started
    /\ UNCHANGED <<ty, cmu, thr, kUsingIPs, kLastReservedIPs, kNetworks, kRV, cache, informer,
                   last, race, granted, released>>

\* a DeleteNetwork that returns the answer to the Delete as it is
DeleteNetworkResult_Unfiltered(err) == err

\* a NotFound answer to the Delete counts as success
DeleteNetworkResult(err) == IF err = "NotFound" THEN "nil" ELSE err

\* a DeleteNetwork that takes the network's marker away with the network
DeleteNetworkDelete_WithMarker(c) ==
    /\ pc[c] = "dn_delete"
    /\ \E fail \in StoreFailures :
         LET name == cur[c].network
             ans == IF fail THEN [err |-> "StoreError", tbl |-> kNetworks]
                    ELSE KubeDelete(kNetworks, name)
         IN  /\ kNetworks' = ans.tbl
             /\ kLastReservedIPs' = IF ans.err = "nil" THEN Del(kLastReservedIPs, name)
                                    ELSE kLastReservedIPs
             /\ informer' = IF ans.err = "nil"
                            THEN Notify(informer, "networks",
                                        Event("delete", kNetworks[name], kNetworks[name]))
                            ELSE informer
             /\ cur' = [cur EXCEPT ![c].failed = fail,
                                   ![c].reqs = @ + 1,
                                   ![c].changed = (ans.tbl # kNetworks),
                                   ![c].inStore = KubeGet(kNetworks, name).obj,
                                   ![c].after = KubeGet(ans.tbl, name).obj,
                                   ![c].err = DeleteNetworkResult(ans.err)]
             /\ pc' = [pc EXCEPT ![c] = "ret"]
    /\ UNCHANGED <<ty, cmu, thr, kUsingIPs, kRV, cache, mu, last, calls, race,
                   granted, released>>

\* the Delete request of Store.DeleteNetwork
DeleteNetworkDelete(c) ==
    /\ pc[c] = "dn_delete"
    /\ \E fail \in StoreFailures :
         LET name == cur[c].network
             ans == IF fail THEN [err |-> "StoreError", tbl |-> kNetworks]
                    ELSE KubeDelete(kNetworks, name)
         IN  /\ kNetworks' = ans.tbl
             /\ informer' = IF ans.err = "nil"
                            THEN Notify(informer, "networks",
                                        Event("delete", kNetworks[name], kNetworks[name]))
                            ELSE informer
             /\ cur' = [cur EXCEPT ![c].failed = fail,
                                   ![c].reqs = @ + 1,
                                   ![c].changed = (ans.tbl # kNetworks),
                                   ![c].inStore = KubeGet(kNetworks, name).obj,
                                   ![c].after = KubeGet(ans.tbl, name).obj,
                                   ![c].err = DeleteNetworkResult(ans.err)]
             /\ pc' = [pc EXCEPT ![c] = "ret"]
    /\ UNCHANGED <<ty, cmu, thr, kUsingIPs, kLastReservedIPs, kRV, cache, mu, last, calls, race,
                   granted, released>>

\* the conflict check done for all names before any range is compared
RECURSIVE AddPoolScan_NamesFirst(_, _, _)
AddPoolScan_NamesFirst(pools, i, pool) ==
    IF \E j \in i..Len(pools) : pool.Name = pools[j].Name THEN "DuplicateName"
    ELSE IF \E j \in i..Len(pools) : Overlaps(pool, pools[j]) THEN "Overlap"
    ELSE "nil"

\* Store.AddPool: the loop over the cached pools, from the i-th on
RECURSIVE AddPoolScan(_, _, _)
AddPoolScan(pools, i, pool) ==
    IF i > Len(pools) THEN "nil"
    ELSE IF pool.Name = pools[i].Name THEN "DuplicateName"
    ELSE IF Overlaps(pool, pools[i]) THEN "Overlap"
    ELSE AddPoolScan(pools, i + 1, pool)

\* an AddPool whose loop compares the names only
AddPoolCheck_NamesOnly(netc, pool) ==
    IF netc = << >> THEN [err |-> "NotFound", pool |-> pool]
    ELSE IF \E i \in 1..Len(netc[1].Pools) : pool.Name = netc[1].Pools[i].Name
    THEN [err |-> "DuplicateName", pool |-> pool]
    ELSE Canonicalize(pool)

\* Store.AddPool up to the first request: the cache checks, then Canonicalize
AddPoolCheck(netc, pool) ==
    IF netc = << >> THEN [err |-> "NotFound", pool |-> pool]
    ELSE IF AddPoolScan(netc[1].Pools, 1, pool) # "nil"
    THEN [err |-> AddPoolScan(netc[1].Pools, 1, pool), pool |-> pool]
    ELSE Canonicalize(pool)

AddPoolEnter(c, name, pool) ==
    /\ MayStart(c)
    /\ ~InRace
    /\ LET netc == CacheGetNetwork(cache[ProcOf(c)], name)
           chk == AddPoolCheck(netc, pool)
       IN  /\ cur' = [cur EXCEPT ![c] =
                        [NoCall EXCEPT !.op = "AddPool", !.network = name,
                                       !.pool = pool.Name, !.given = <<pool>>,
                                       !.arg = <<chk.pool>>,
                                       !.before = netc,
                                       !.inStore = KubeGet(kNetworks, name).obj,
                                       !.err = chk.err]]
           /\ pc' = [pc EXCEPT ![c] = IF chk.err # "nil" THEN "ret" ELSE "ap_get"]
    /\ mu' = [mu EXCEPT ![ProcOf(c)] = c]
    /\ calls' = Started
    /\ UNCHANGED <<ty, cmu, thr, kUsingIPs, kLastReservedIPs, kNetworks, kRV, cache, informer,
                   last, race, granted, released>>

\* the Get of the network object to append to
AddPoolGet(c) ==
    /\ pc[c] = "ap_get"
    /\ \E fail \in StoreFailures :
         LET ans == IF fail THEN [err |-> "StoreError", obj |-> << >>]
                    ELSE KubeGet(kNetworks, cur[c].network)
         IN  /\ cur' = [cur EXCEPT ![c].failed = fail,
                                   ![c].reqs = @ + 1,
                                   ![c].got = ans.obj,
                                   ![c].err = ans.err]
             /\ pc' = [pc EXCEPT ![c] = IF ans.err # "nil" THEN "ret" ELSE "ap_create"]
    /\ UNCHANGED <<ty, cmu, thr, kUsingIPs, kLastReservedIPs, kNetworks, kRV, cache, informer, mu,
                   last, calls, race, granted, released>>

\* the appended object written with Update
AddPoolWrite_Update(tbl, obj, pools, rv) ==
    KubeUpdate(tbl, obj.name, obj.resourceVersion, NetworkSpec(pools), rv)

\* Store.AddPool: the write of the clone, Networks().Create(networkClone); the
\* clone keeps the resourceVersion the Get returned
AddPoolWrite(tbl, obj, pools, rv) ==
    KubeCreate(tbl, obj.name, obj.resourceVersion, NetworkSpec(pools), rv)

AddPoolCreate(c) ==
    /\ pc[c] = "ap_create"
    /\ \E fail \in StoreFailures :
         LET name == cur[c].network
             network == cur[c].got[1]
             pools == Append(network.spec.pools, PoolToCRD(cur[c].arg[1]))
             ans == IF fail THEN [err |-> "StoreError", tbl |-> kNetworks]
                    ELSE AddPoolWrite(kNetworks, network, pools, kRV + 1)
         IN  /\ kNetworks' = ans.tbl
             /\ kRV' = IF ans.err = "nil" THEN kRV + 1 ELSE kRV
             /\ informer' = IF ans.err # "nil" THEN informer
                            ELSE IF Has(kNetworks, name)
                            THEN Notify(informer, "networks",
                                        Event("update", kNetworks[name], ans.tbl[name]))
                            ELSE Notify(informer, "networks",
                                        Event("add", ans.tbl[name], ans.tbl[name]))
             /\ cur' = [cur EXCEPT ![c].failed = fail,
                                   ![c].reqs = @ + 1,
                                   ![c].changed = (ans.tbl # kNetworks),
                                   ![c].after = KubeGet(ans.tbl, name).obj,
                                   ![c].err = ans.err]
             /\ pc' = [pc EXCEPT ![c] = "ret"]
    /\ UNCHANGED <<ty, cmu, thr, kUsingIPs, kLastReservedIPs, cache, mu, last, calls, race,
                   granted, released>>

\* Store.DelPool: the index the loop ends with, the last pool of that name
\* (0 for none)
DelPoolIndex(pools, poolName) ==
    LET m == {i \in 1..Len(pools) : pools[i].name = poolName}
    IN  IF m = {} THEN 0 ELSE CHOOSE i \in m : \A j \in m : j <= i

\* a removal that also drops what follows the pool
RemoveAt_Truncate(pools, i) == SubSeq(pools, 1, i - 1)

\* networkClone.Spec.Pools without its i-th pool
RemoveAt(pools, i) == SubSeq(pools, 1, i - 1) \o SubSeq(pools, i + 1, Len(pools))

DelPoolEnter(c, name, poolName) ==
    /\ MayStart(c)
    /\ ~InRace
    /\ cur' = [cur EXCEPT ![c] =
                 [NoCall EXCEPT !.op = "DelPool", !.network = name, !.pool = poolName]]
    /\ pc' = [pc EXCEPT ![c] = "dp_get"]
    /\ mu' = [mu EXCEPT ![ProcOf(c)] = c]
    /\ calls' = Started
    /\ UNCHANGED <<ty, cmu, thr, kUsingIPs, kLastReservedIPs, kNetworks, kRV, cache, informer,
                   last, race, granted, released>>

\* the Get and the search for the pool in what it returned
DelPoolGet(c) ==
    /\ pc[c] = "dp_get"
    /\ \E fail \in StoreFailures :
         LET ans == IF fail THEN [err |-> "StoreError", obj |-> << >>]
                    ELSE KubeGet(kNetworks, cur[c].network)
             err == IF ans.err # "nil" THEN ans.err
                    ELSE IF DelPoolIndex(ans.obj[1].spec.pools, cur[c].pool) = 0
                    THEN "PoolNotFound"
                    ELSE "nil"
         IN  /\ cur' = [cur EXCEPT ![c].failed = fail,
                                   ![c].reqs = @ + 1,
                                   ![c].got = ans.obj,
                                   ![c].inStore = KubeGet(kNetworks, cur[c].network).obj,
                                   ![c].err = err]
             /\ pc' = [pc EXCEPT ![c] = IF err # "nil" THEN "ret" ELSE "dp_update"]
    /\ UNCHANGED <<ty, cmu, thr, kUsingIPs, kLastReservedIPs, kNetworks, kRV, cache, informer, mu,
                   last, calls, race, granted, released>>

DelPoolUpdate(c) ==
    /\ pc[c] = "dp_update"
    /\ \E fail \in StoreFailures :
         LET name == cur[c].network
             network == cur[c].got[1]
             pools == RemoveAt(network.spec.pools,
                               DelPoolIndex(network.spec.pools, cur[c].pool))
             ans == IF fail THEN [err |-> "StoreError", tbl |-> kNetworks]
                    ELSE KubeUpdate(kNetworks, name, network.resourceVersion,
                                    NetworkSpec(pools), kRV + 1)
         IN  /\ kNetworks' = ans.tbl
             /\ kRV' = IF ans.err = "nil" THEN kRV + 1 ELSE kRV
             /\ informer' = IF ans.err = "nil"
                            THEN Notify(informer, "networks",
                                        Event("update", kNetworks[name], ans.tbl[name]))
                            ELSE informer
             /\ cur' = [cur EXCEPT ![c].failed = fail,
                                   ![c].reqs = @ + 1,
                                   ![c].changed = (ans.tbl # kNetworks),
                                   ![c].inStore = KubeGet(kNetworks, name).obj,
                                   ![c].after = KubeGet(ans.tbl, name).obj,
                                   ![c].err = ans.err]
             /\ pc' = [pc EXCEPT ![c] = "ret"]
    /\ UNCHANGED <<ty, cmu, thr, kUsingIPs, kLastReservedIPs, cache, mu, last, calls, race,
                   granted, released>>

\* Cache.addNetwork: the translation's result is stored even when it is nil
CacheAddNetwork(c, obj) == [c EXCEPT !.networks = Put(@, obj.name, GetNetworkFromCRD(obj))]

\* an updateNetwork that leaves the map alone when the translation fails
CacheUpdateNetwork_KeepOnError(c, obj) ==
    IF obj.deletionTimestamp
    THEN [c EXCEPT !.networks = Del(@, obj.name)]
    ELSE IF GetNetworkFromCRD(obj) = << >> THEN c
    ELSE [c EXCEPT !.networks = Put(@, obj.name, GetNetworkFromCRD(obj))]

\* Cache.updateNetwork
CacheUpdateNetwork(c, obj) ==
    IF obj.deletionTimestamp
    THEN [c EXCEPT !.networks = Del(@, obj.name)]
    ELSE [c EXCEPT !.networks = Put(@, obj.name, GetNetworkFromCRD(obj))]

\* a deleteNetwork that puts the entry in when it is not there
CacheDeleteNetwork_Toggle(c, obj) ==
    IF Has(c.networks, obj.name)
    THEN [c EXCEPT !.networks = Del(@, obj.name)]
    ELSE [c EXCEPT !.networks = Put(@, obj.name, GetNetworkFromCRD(obj))]

\* Cache.deleteNetwork
CacheDeleteNetwork(c, obj) == [c EXCEPT !.networks = Del(@, obj.name)]

AddNetworkToCache(p) ==
    /\ Pending(p, "networks", "add")
    /\ cache' = [cache EXCEPT ![p] = CacheAddNetwork(@, informer[p].networks[1].obj)]
    /\ informer' = Pop(p, "networks")
    /\ UNCHANGED <<ty, cmu, thr, kUsingIPs, kLastReservedIPs, kNetworks, kRV, mu, pc, cur, last,
                   calls, race, granted, released>>

UpdateNetworkInCache(p) ==
    /\ Pending(p, "networks", "update")
    /\ LET ev == informer[p].networks[1]
       IN  cache' = IF ev.old.resourceVersion = ev.obj.resourceVersion THEN cache
                    ELSE [cache EXCEPT ![p] = CacheUpdateNetwork(@, ev.obj)]
    /\ informer' = Pop(p, "networks")
    /\ UNCHANGED <<ty, cmu, thr, kUsingIPs, kLastReservedIPs, kNetworks, kRV, mu, pc, cur, last,
                   calls, race, granted, released>>

DeleteNetworkFromCache(p) ==
    /\ Pending(p, "networks", "delete")
    /\ cache' = [cache EXCEPT ![p] = CacheDeleteNetwork(@, informer[p].networks[1].obj)]
    /\ informer' = Pop(p, "networks")
    /\ UNCHANGED <<ty, cmu, thr, kUsingIPs, kLastReservedIPs, kNetworks, kRV, mu, pc, cur, last,
                   calls, race, granted, released>>

-----------------------------------------------------------------------------
(* The pool management protocol: the processes start with their caches
   synced to a network whose pools are well formed *)

Subnet24 == <<IPNet(<<192, 168, 0, 0>>, 24)>>
Subnet26 == <<IPNet(<<192, 168, 0, 0>>, 26)>>
Subnet30 == <<IPNet(<<10, 0, 0, 0>>, 30)>>

\* 192.168.0.0/24 with no start and end given
Pool1 == Pool("p1", NilIP, NilIP, <<192, 168, 0, 254>>, Subnet24, << >>)
\* apart from Pool1
Pool3 == Pool("p3", NilIP, NilIP, <<10, 0, 0, 1>>, Subnet30, << >>)
\* Pool3's name on another subnet, inside Pool1's range
Pool3On26 == Pool("p3", NilIP, NilIP, <<192, 168, 0, 1>>, Subnet26, << >>)
\* Pool1's name, and a gateway outside the subnet
Pool1BadGateway == Pool("p1", NilIP, NilIP, <<192, 168, 2, 2>>, Subnet30, << >>)

AddPoolInputs == {Pool1, Pool3, Pool3On26, Pool1BadGateway}

DelPoolNames == {"p1", "p3"}

\* the pool lists a network object may start with
InitialPools ==
    {<< >>,
     <<PoolToCRD(Canonicalize(Pool1).pool)>>,
     <<PoolToCRD(Canonicalize(Pool1).pool), PoolToCRD(Canonicalize(Pool3).pool)>>}

\* the network objects the API server starts with: none, or one
InitialNetworks ==
    {EmptyMap} \cup
    {Put(EmptyMap, n, Object(n, 1, NetworkSpec(pools))) :
        n \in NetworkNames, pools \in InitialPools}

InitPool ==
    /\ kUsingIPs = EmptyMap
    /\ kLastReservedIPs = EmptyMap
    /\ kNetworks \in InitialNetworks
    /\ cache = [p \in Procs |->
                  [NewCache EXCEPT !.networks =
                      [n \in DOMAIN kNetworks |-> GetNetworkFromCRD(kNetworks[n])]]]
    /\ kRV = 1
    /\ informer = [p \in Procs |-> [networks |-> << >>]]
    /\ mu = [p \in Procs |-> 0]
    /\ pc = [c \in Callers |-> "idle"]
    /\ cur = [c \in Callers |-> NoCall]
    /\ last = [c \in Callers |-> << >>]
    /\ calls = 0
    /\ race = << >>
    /\ granted = [k \in {KeyOf(ip) : ip \in ReserveIPs} |-> 0]
    /\ released = [k \in {KeyOf(ip) : ip \in ReserveIPs} |-> FALSE]
    /\ cmu = NewRWMutex
    /\ thr = [t \in Threads |-> NoThread]
    /\ ty = NoTypes

NextPool ==
    \/ \E c \in Writers, n \in NetworkNames : CreateNetworkEnter(c, n)
    \/ \E c \in Writers : CreateNetworkCreate(c)
    \/ \E c \in Writers, n \in NetworkNames : DeleteNetworkEnter(c, n)
    \/ \E c \in Writers : DeleteNetworkDelete(c)
    \/ \E c \in Writers, n \in NetworkNames, pool \in AddPoolInputs :
          AddPoolEnter(c, n, pool)
    \/ \E c \in Writers : AddPoolGet(c)
    \/ \E c \in Writers : AddPoolCreate(c)
    \/ \E c \in Writers, n \in NetworkNames, pn \in DelPoolNames :
          DelPoolEnter(c, n, pn)
    \/ \E c \in Writers : DelPoolGet(c)
    \/ \E c \in Writers : DelPoolUpdate(c)
    \/ \E c \in Writers : Return(c)
    \/ \E p \in Procs : AddNetworkToCache(p)
    \/ \E p \in Procs : UpdateNetworkInCache(p)
    \/ \E p \in Procs : DeleteNetworkFromCache(p)

SpecPool == InitPool /\ [][NextPool]_vars

-----------------------------------------------------------------------------
(* Claims about the reservation protocol *)

AtReturn(c, op) == pc[c] = "ret" /\ cur[c].op = op

Returns(c, reserved, err) ==
    /\ ReserveReturn(cur[c]).reserved = reserved
    /\ ReserveReturn(cur[c]).err = err

Racers == {c \in Callers : last[c] # << >>}

Winners == {c \in Racers : last[c][1].reserved}

\* every Reserve of the scenario that was issued has returned, none met a
\* store failure
RaceOver ==
    /\ InRace
    /\ Racers # {}
    /\ \A c \in Callers : Idle(c)
    /\ \A c \in Racers : ~last[c][1].failed

LosersRejected ==
    \A c \in Racers \ Winners : ~last[c][1].reserved /\ last[c][1].err = "nil"

\* C1 as stated: N concurrent Reserve calls for an address with no in-use
\* object, without store failure: exactly one returns true, the others
\* (false, nil).
C1_ExactlyOneOfN ==
    RaceOver => Cardinality(Winners) = 1 /\ LosersRejected

\* C1 amended: at most one of the N calls returns true and the others return
\* (false, nil); exactly one returns true when, as the calls are issued, no
\* caller's cache marks the address and no notification about it is pending.
C1_ExactlyOneOfNInSync ==
    RaceOver =>
        /\ Cardinality(Winners) <= 1
        /\ LosersRejected
        /\ race[1].synced => Cardinality(Winners) = 1

C1_Witness ==
    /\ RaceOver
    /\ race[1].synced
    /\ Racers = Callers
    /\ Cardinality(Winners) = 1

TheKeys == DOMAIN granted

\* C2: at every moment at most one Reserve has returned true for an address
\* since its in-use object was last deleted, that object then exists, and the
\* API server holds at most one in-use object per address.
C2_AtMostOneHolder ==
    \A k \in TheKeys :
        /\ granted[k] <= 1
        /\ granted[k] = 1 => Has(kUsingIPs, k)
        /\ Cardinality({n \in DOMAIN kUsingIPs : ToIP(n) = ToIP(k)}) <= 1

\* a second Reserve reached the API server while the address was held
C2_Witness ==
    \E c \in Callers :
        /\ AtReturn(c, "Reserve")
        /\ cur[c].outcome = "AlreadyExists"
        /\ granted[KeyOf(cur[c].ip)] = 1
        /\ released[KeyOf(cur[c].ip)]

\* a Reserve that ran when the address had been reserved and released and
\* had no in-use object, and met no store failure
ReserveAfterRelease(c) ==
    /\ AtReturn(c, "Reserve")
    /\ cur[c].wasReleased
    /\ cur[c].absent
    /\ ~cur[c].failed

\* C3 as stated: after Reserve (true), Release, a new Reserve of the address
\* returns (true, nil).
C3_ReserveAgainSucceeds ==
    \A c \in Callers : ReserveAfterRelease(c) => Returns(c, TRUE, "nil")

\* C3 amended: the new Reserve returns (true, nil) when the caller's cache no
\* longer marks the address, and (false, nil) while the cache still marks it.
C3_ReserveAgainUnlessCached ==
    \A c \in Callers :
        ReserveAfterRelease(c) =>
            IF cur[c].hit THEN Returns(c, FALSE, "nil") ELSE Returns(c, TRUE, "nil")

C3_Witness ==
    \E c \in Callers :
        /\ ReserveAfterRelease(c)
        /\ ~cur[c].hit
        /\ Returns(c, TRUE, "nil")
        /\ Has(kUsingIPs, KeyOf(cur[c].ip))

\* C4 as stated: Release of an address with no in-use object returns no error.
C4_ReleaseIdempotent ==
    \A c \in Callers :
        (AtReturn(c, "Release") /\ cur[c].absent /\ ~cur[c].failed)
            => Result(cur[c]).err = "nil"

\* C5: a Reserve whose create was answered AlreadyExists returns (false, nil),
\* one whose create failed otherwise returns false with that error; neither
\* created an in-use object nor sent a write of the marker.
C5_CreateFailure ==
    \A c \in Callers :
        (AtReturn(c, "Reserve") /\ cur[c].outcome \notin {"none", "ok"}) =>
            /\ cur[c].outcome = "AlreadyExists" => Returns(c, FALSE, "nil")
            /\ cur[c].outcome # "AlreadyExists" => Returns(c, FALSE, cur[c].outcome)
            /\ ~cur[c].created
            /\ cur[c].lriWrites = 0
            /\ cur[c].reqs = 1

\* both kinds of failure have happened
C5_Witness ==
    \E c, d \in Callers :
        /\ AtReturn(c, "Reserve") /\ cur[c].outcome = "AlreadyExists"
        /\ AtReturn(d, "Reserve") /\ cur[d].outcome = "StoreError"

\* C6: a Reserve that finds the address marked in its process's cache returns
\* (false, nil) and has sent no request to the API server.
C6_CacheHitNoRequest ==
    \A c \in Callers :
        (AtReturn(c, "Reserve") /\ cur[c].hit) =>
            /\ Returns(c, FALSE, "nil")
            /\ cur[c].reqs = 0
            /\ ~cur[c].created
            /\ cur[c].lriWrites = 0

\* the cache marked an address that the API server no longer holds
C6_Witness ==
    \E c \in Callers :
        /\ AtReturn(c, "Reserve")
        /\ cur[c].hit
        /\ cur[c].absent

MarkerSteps == {"lri_get", "lri_create", "lri_update", "ret"}

\* C7: a Reserve whose create succeeded returns (true, nil) whatever the
\* marker update did, and none of its steps after the create changes the
\* in-use objects.
C7_MarkerFailureIgnored ==
    /\ [](\A c \in Callers :
            (AtReturn(c, "Reserve") /\ cur[c].outcome = "ok") => Returns(c, TRUE, "nil"))
    /\ [][\A c \in Callers :
            (cur[c].op = "Reserve" /\ pc[c] \in MarkerSteps /\ pc'[c] # pc[c])
                => kUsingIPs' = kUsingIPs]_vars

\* the marker update failed after a successful create, the object is there
C7_Witness ==
    \E c \in Callers :
        /\ AtReturn(c, "Reserve")
        /\ cur[c].outcome = "ok"
        /\ cur[c].lriErr \notin {"none", "nil"}
        /\ cur[c].lriWrites = 1
        /\ Has(kUsingIPs, KeyOf(cur[c].ip))

-----------------------------------------------------------------------------
(* Claims about pool management *)

\* the pools of a network object, translated
PoolsOf(obj) == [i \in 1..Len(obj.spec.pools) |-> GetPoolFromCRD(obj.spec.pools[i])[1]]

Conflicts(pool, p) == pool.Name = p.Name \/ Overlaps(pool, p)

\* AddPool's preconditions of success for the call in cur[c]: the network is
\* in the cache and in the API server, the pool is valid and conflicts with
\* no pool of either, no request failed, and the object the call appended
\* to is the one the API server held when the call began
AddPoolShouldSucceed(c) ==
    /\ ~cur[c].failed
    /\ cur[c].before # << >>
    /\ cur[c].inStore # << >>
    /\ cur[c].got = cur[c].inStore
    /\ Validate(cur[c].given[1]) = "nil"
    /\ \A i \in 1..Len(cur[c].before[1].Pools) :
          ~Conflicts(cur[c].given[1], cur[c].before[1].Pools[i])
    /\ \A i \in 1..Len(cur[c].inStore[1].spec.pools) :
          ~Conflicts(cur[c].given[1], PoolsOf(cur[c].inStore[1])[i])

\* C8: an AddPool on a network that is in the cache and in the API server,
\* with a valid pool that conflicts with no existing pool, returns nil, and
\* the API server's network object then holds the previous pools followed by
\* the new pool in canonical form (for 192.168.0.0/24 with no start and end:
\* poolStart 192.168.0.1, poolEnd 192.168.0.254).
C8_AddPoolAppends ==
    \A c \in Callers :
        (AtReturn(c, "AddPool") /\ AddPoolShouldSucceed(c)) =>
            /\ cur[c].err = "nil"
            /\ cur[c].after # << >>
            /\ cur[c].after[1].spec.pools =
                   Append(cur[c].inStore[1].spec.pools,
                          PoolToCRD(Canonicalize(cur[c].given[1]).pool))
            /\ cur[c].given[1] = Pool1 =>
                   LET w == cur[c].after[1].spec.pools[Len(cur[c].after[1].spec.pools)]
                   IN  /\ w.poolStart = <<"1", "9", "2", ".", "1", "6", "8", ".", "0", ".", "1">>
                       /\ w.poolEnd = <<"1", "9", "2", ".", "1", "6", "8", ".", "0", ".",
                                        "2", "5", "4">>

\* the error C9 names for a cached network and a pool: all names are
\* compared before any range
ErrorInClaimedOrder(netc, pool) ==
    IF netc = << >> THEN "NotFound"
    ELSE IF \E i \in 1..Len(netc[1].Pools) : pool.Name = netc[1].Pools[i].Name
    THEN "DuplicateName"
    ELSE IF \E i \in 1..Len(netc[1].Pools) : Overlaps(pool, netc[1].Pools[i])
    THEN "Overlap"
    ELSE Validate(pool)

\* C9 as stated: AddPool fails and leaves the API server's objects unchanged
\* in these cases, checked in this order: the network is not in the cache
\* (NotFound); a cached pool has the same name (DuplicateName); the new
\* pool's range intersects a cached pool's (Overlap); the pool fails Validate.
C9_AddPoolRejectsInOrder ==
    \A c \in Callers :
        (AtReturn(c, "AddPool")
           /\ ErrorInClaimedOrder(cur[c].before, cur[c].given[1]) # "nil") =>
            /\ cur[c].err = ErrorInClaimedOrder(cur[c].before, cur[c].given[1])
            /\ ~cur[c].changed

\* the error decided by the first cached pool that conflicts with the new one
ErrorOfFirstConflict(netc, pool) ==
    IF netc = << >> THEN "NotFound"
    ELSE LET hits == {i \in 1..Len(netc[1].Pools) : Conflicts(pool, netc[1].Pools[i])}
             first == CHOOSE i \in hits : \A j \in hits : i <= j
         IN  IF hits = {} THEN Validate(pool)
             ELSE IF pool.Name = netc[1].Pools[first].Name THEN "DuplicateName"
             ELSE "Overlap"

\* C9 amended: AddPool fails and leaves the API server's objects unchanged
\* when the network is not in the cache (NotFound); else when a cached pool
\* conflicts with the new one, the first such pool in list order deciding
\* the error: DuplicateName when it has the new pool's name, Overlap when it
\* has not and the ranges intersect; else when the pool fails Validate.
C9_AddPoolRejectsFirstConflict ==
    \A c \in Callers :
        (AtReturn(c, "AddPool")
           /\ ErrorOfFirstConflict(cur[c].before, cur[c].given[1]) # "nil") =>
            /\ cur[c].err = ErrorOfFirstConflict(cur[c].before, cur[c].given[1])
            /\ ~cur[c].changed
            /\ cur[c].reqs = 0

\* an AddPool returned Overlap for a pool whose name a later cached pool has
C9_Witness ==
    \E c \in Callers :
        /\ AtReturn(c, "AddPool")
        /\ cur[c].err = "Overlap"
        /\ cur[c].before # << >>
        /\ \E i \in 1..Len(cur[c].before[1].Pools) :
              cur[c].before[1].Pools[i].Name = cur[c].given[1].Name

\* C10: in every reachable state, whatever AddPool and DelPool calls the
\* processes issued and however late their notifications arrive, the pools
\* of every network object in the API server have pairwise distinct names
\* and pairwise disjoint ranges.
C10_PoolsDistinctAndDisjoint ==
    \A n \in DOMAIN kNetworks :
        /\ GetNetworkFromCRD(kNetworks[n]) # << >>
        /\ \A i, j \in 1..Len(kNetworks[n].spec.pools) :
              i < j => ~Conflicts(PoolsOf(kNetworks[n])[i], PoolsOf(kNetworks[n])[j])

\* an AddPool has sent its write while a process still has the notification
\* of a DelPool's change to come
C10_Witness ==
    \E c \in Callers :
        /\ AtReturn(c, "AddPool")
        /\ cur[c].reqs = 2
        /\ \E p \in Procs : Pending(p, "networks", "update")
        /\ \E n \in DOMAIN kNetworks : Len(kNetworks[n].spec.pools) > 0

\* the pools of a list that do not have the name
WithoutPool(pools, poolName) == SelectSeq(pools, LAMBDA w : w.name # poolName)

\* C11: a DelPool that meets no store failure fails and changes nothing in
\* the API server when the network object is missing there or has no pool of
\* that name; otherwise, the object being still the one the call fetched, it
\* returns nil and the object then holds the other pools in their previous
\* order and not that pool; when the object was changed or deleted since the
\* fetch, the write is refused and nothing changes.
C11_DelPoolRemovesThePool ==
    \A c \in Callers :
        (AtReturn(c, "DelPool") /\ ~cur[c].failed) =>
            IF cur[c].got = << >>
            THEN cur[c].err # "nil" /\ ~cur[c].changed /\ cur[c].reqs = 1
            ELSE IF \A i \in 1..Len(cur[c].got[1].spec.pools) :
                       cur[c].got[1].spec.pools[i].name # cur[c].pool
            THEN cur[c].err # "nil" /\ ~cur[c].changed /\ cur[c].reqs = 1
            ELSE IF cur[c].inStore = cur[c].got
            THEN /\ cur[c].err = "nil"
                 /\ cur[c].after # << >>
                 /\ cur[c].after[1].name = cur[c].network
                 /\ cur[c].after[1].spec.pools =
                        WithoutPool(cur[c].got[1].spec.pools, cur[c].pool)
                 /\ Len(cur[c].after[1].spec.pools) = Len(cur[c].got[1].spec.pools) - 1
            ELSE cur[c].err # "nil" /\ ~cur[c].changed

\* a DelPool removed the first of two pools
C11_Witness ==
    \E c \in Callers :
        /\ AtReturn(c, "DelPool")
        /\ cur[c].err = "nil"
        /\ cur[c].changed
        /\ Len(cur[c].got[1].spec.pools) = 2
        /\ cur[c].got[1].spec.pools[1].name = cur[c].pool

\* C12: a CreateNetwork whose cache holds a network of that name fails with
\* an already-exists error and sends no request; otherwise (no store failure)
\* it creates an object of that name with zero pools, and when the API server
\* already holds one (the cache was stale) it returns the AlreadyExists error
\* and that object stays as it was.
C12_CreateNetwork ==
    \A c \in Callers :
        (AtReturn(c, "CreateNetwork") /\ ~cur[c].failed) =>
            IF cur[c].before # << >>
            THEN cur[c].err = "AlreadyExists" /\ cur[c].reqs = 0 /\ ~cur[c].changed
            ELSE IF cur[c].inStore # << >>
            THEN /\ cur[c].err = "AlreadyExists"
                 /\ cur[c].reqs = 1
                 /\ cur[c].after = cur[c].inStore
            ELSE /\ cur[c].err = "nil"
                 /\ cur[c].after # << >>
                 /\ cur[c].after[1].name = cur[c].network
                 /\ cur[c].after[1].spec.pools = << >>

\* a CreateNetwork with a stale cache met the object in the API server
C12_Witness ==
    \E c \in Callers :
        /\ AtReturn(c, "CreateNetwork")
        /\ ~cur[c].failed
        /\ cur[c].before = << >>
        /\ cur[c].inStore # << >>
        /\ cur[c].err = "AlreadyExists"

\* C13: a DeleteNetwork fails with NotFound when the cache has no network of
\* that name and with NotEmpty when the cached network has a pool, in both
\* cases without a request; otherwise (no store failure) it returns nil and
\* the object is gone from the API server, also when the API server answered
\* the Delete with NotFound because the object was gone already.
C13_DeleteNetwork ==
    \A c \in Callers :
        (AtReturn(c, "DeleteNetwork") /\ ~cur[c].failed) =>
            IF cur[c].before = << >>
            THEN cur[c].err = "NotFound" /\ cur[c].reqs = 0 /\ ~cur[c].changed
            ELSE IF Len(cur[c].before[1].Pools) > 0
            THEN cur[c].err = "NotEmpty" /\ cur[c].reqs = 0 /\ ~cur[c].changed
            ELSE /\ cur[c].err = "nil"
                 /\ cur[c].reqs = 1
                 /\ cur[c].after = << >>
                 /\ cur[c].changed = (cur[c].inStore # << >>)

\* a DeleteNetwork with a stale cache found the object gone already
C13_Witness ==
    \E c \in Callers :
        /\ AtReturn(c, "DeleteNetwork")
        /\ ~cur[c].failed
        /\ cur[c].before # << >>
        /\ cur[c].reqs = 1
        /\ cur[c].inStore = << >>
        /\ cur[c].err = "nil"

\* C14: whatever the interleaving of AddPool, DelPool and DeleteNetwork calls
\* of the processes and the delay of the notifications, a step that removes
\* a network object from the API server removes one whose pool list is empty
\* at that moment.
C14_DeletedOnlyWhenEmpty ==
    [][\A n \in DOMAIN kNetworks :
          n \notin DOMAIN kNetworks' => kNetworks[n].spec.pools = << >>]_vars

\* a DeleteNetwork removed an object that a DelPool had emptied before
C14_Witness ==
    \E c \in Callers :
        /\ AtReturn(c, "DeleteNetwork")
        /\ cur[c].changed
        /\ cur[c].inStore[1].resourceVersion > 1
        /\ cur[c].inStore[1].spec.pools = << >>

-----------------------------------------------------------------------------
(* All the coordinator's operations together: the callers of a process issue
   network, pool and address operations on the same Store *)

\* the markers the API server starts with: none, or one left by an earlier
\* reservation
InitialMarkers ==
    {EmptyMap} \cup
    {Put(EmptyMap, n, Object(n, 1, [ip |-> IPString(ip), poolName |-> pl])) :
        n \in NetworkNames, ip \in ReserveIPs, pl \in PoolNames}

\* the network objects the API server starts with: none, or one with a pool
InitialNetworksAll ==
    {EmptyMap} \cup
    {Put(EmptyMap, n, Object(n, 1, NetworkSpec(<<PoolToCRD(Canonicalize(Pool1).pool)>>))) :
        n \in NetworkNames}

InitAll ==
    /\ kUsingIPs = EmptyMap
    /\ kLastReservedIPs \in InitialMarkers
    /\ kNetworks \in InitialNetworksAll
    /\ cache = [p \in Procs |->
                  [NewCache EXCEPT !.networks =
                      [n \in DOMAIN kNetworks |-> GetNetworkFromCRD(kNetworks[n])]]]
    /\ kRV = 1
    /\ informer = [p \in Procs |-> [networks |-> << >>, usingIPs |-> << >>]]
    /\ mu = [p \in Procs |-> 0]
    /\ pc = [c \in Callers |-> "idle"]
    /\ cur = [c \in Callers |-> NoCall]
    /\ last = [c \in Callers |-> << >>]
    /\ calls = 0
    /\ race = << >>
    /\ granted = [k \in {KeyOf(ip) : ip \in ReserveIPs} |-> 0]
    /\ released = [k \in {KeyOf(ip) : ip \in ReserveIPs} |-> FALSE]
    /\ cmu = NewRWMutex
    /\ thr = [t \in Threads |-> NoThread]
    /\ ty = NoTypes

NextAll ==
    \/ \E c \in Callers, n \in NetworkNames, pl \in PoolNames, ip \in ReserveIPs :
          ReserveEnter(c, n, pl, ip)
    \/ \E c \in Callers : ReserveCreate(c)
    \/ \E c \in Callers : ReserveLRIGet(c)
    \/ \E c \in Callers : ReserveLRICreate(c)
    \/ \E c \in Callers : ReserveLRIUpdate(c)
    \/ \E c \in Callers, ip \in ReserveIPs : ReleaseEnter(c, ip)
    \/ \E c \in Callers : ReleaseDelete(c)
    \/ \E c \in Callers, n \in NetworkNames : CreateNetworkEnter(c, n)
    \/ \E c \in Callers : CreateNetworkCreate(c)
    \/ \E c \in Callers, n \in NetworkNames : DeleteNetworkEnter(c, n)
    \/ \E c \in Callers : DeleteNetworkDelete(c)
    \/ \E c \in Callers, n \in NetworkNames : AddPoolEnter(c, n, Pool3)
    \/ \E c \in Callers : AddPoolGet(c)
    \/ \E c \in Callers : AddPoolCreate(c)
    \/ \E c \in Callers, n \in NetworkNames : DelPoolEnter(c, n, Pool1.Name)
    \/ \E c \in Callers : DelPoolGet(c)
    \/ \E c \in Callers : DelPoolUpdate(c)
    \/ \E c \in Callers : Return(c)
    \/ \E p \in Procs : AddUsingIPToCache(p)
    \/ \E p \in Procs : DeleteUsingIPFromCache(p)
    \/ \E p \in Procs : AddNetworkToCache(p)
    \/ \E p \in Procs : UpdateNetworkInCache(p)
    \/ \E p \in Procs : DeleteNetworkFromCache(p)

SpecAll == InitAll /\ [][NextAll]_vars

-----------------------------------------------------------------------------
(* Claims about the locks *)

Inside(c) == pc[c] # "idle"

StoreChanged ==
    \/ kUsingIPs' # kUsingIPs
    \/ kLastReservedIPs' # kLastReservedIPs
    \/ kNetworks' # kNetworks

\* C15: a caller inside CreateNetwork, DeleteNetwork, AddPool, DelPool,
\* Reserve or Release holds its process's lock from the first step to the
\* return, so no two callers of a process are inside an operation together;
\* every write to the API server is a step of the one caller that holds its
\* process's lock; the lock is given up only by the return.
C15_StoreLock ==
    /\ [](\A c \in Callers : Inside(c) => mu[ProcOf(c)] = c)
    /\ [](\A c, d \in Callers :
             (Inside(c) /\ Inside(d) /\ ProcOf(c) = ProcOf(d)) => c = d)
    /\ [][StoreChanged =>
             \E c \in Callers :
                /\ Inside(c)
                /\ mu[ProcOf(c)] = c
                /\ cur'[c] # cur[c]
                /\ \A d \in Callers \ {c} : cur'[d] = cur[d] /\ pc'[d] = pc[d]]_vars
    /\ [][\A p \in Procs :
             (mu[p] # 0 /\ mu'[p] # mu[p]) =>
                 /\ mu'[p] = 0
                 /\ pc[mu[p]] = "ret"
                 /\ pc'[mu[p]] = "idle"]_vars

\* callers of two processes are at their writes together, while another
\* caller of one of the processes waits
C15_Witness ==
    \E c, d, e \in Callers :
        /\ ProcOf(c) # ProcOf(d)
        /\ ProcOf(e) = ProcOf(c)
        /\ e # c
        /\ pc[c] = "create"
        /\ pc[d] = "dp_update"
        /\ Idle(e)

-----------------------------------------------------------------------------
(* The cache protocol: the Cache of process 1, its RWMutex followed step by
   step.  Each informer's thread hands its handler one notification after
   the other; the callers' threads read. *)

\* a network object whose pool does not translate
BadPoolCRD == [PoolToCRD(Canonicalize(Pool1).pool) EXCEPT !.subnet = <<"x">>]

CachedObject(name, rv, deleted, spec) ==
    [name |-> name, resourceVersion |-> rv, deletionTimestamp |-> deleted, spec |-> spec]

Versions == {1, 2}

NetworkObjects ==
    {CachedObject(n, rv, d, NetworkSpec(pools)) :
        n \in NetworkNames, rv \in Versions, d \in BOOLEAN,
        pools \in {<<PoolToCRD(Canonicalize(Pool1).pool)>>, <<BadPoolCRD>>}}

UsingIPObjects ==
    {CachedObject(KeyOf(ip), rv, d, [podName |-> 1, podNamespace |-> "ns",
                                      network |-> n, pool |-> pl]) :
        ip \in ReserveIPs, rv \in Versions, d \in BOOLEAN,
        n \in NetworkNames, pl \in PoolNames}

LastReservedIPObjects ==
    {CachedObject(n, rv, d, [ip |-> IPString(ip), poolName |-> pl]) :
        n \in NetworkNames, rv \in Versions, d \in BOOLEAN,
        ip \in ReserveIPs, pl \in PoolNames}

ObjectsOf(kind) ==
    IF kind = "networks" THEN NetworkObjects
    ELSE IF kind = "usingIPs" THEN UsingIPObjects
    ELSE LastReservedIPObjects

\* the object is of another kind than network, or a network that translates
Translates(kind, o) == kind # "networks" \/ GetNetworkFromCRD(o) # << >>

\* the objects an informer has seen first: version 1, no deletion marker
FirstSeen(kind) == {o \in ObjectsOf(kind) : o.resourceVersion = 1 /\ ~o.deletionTimestamp}

\* a second network, for the entries a handler must leave alone
OtherNetwork == CachedObject("n2", 1, FALSE, NetworkSpec(<< >>))

\* the notifications the informer of a kind may hand to its handlers
Notifications(kind) ==
    {Event("add", o, o) : o \in FirstSeen(kind)}
    \cup (IF kind = "networks" THEN {Event("add", OtherNetwork, OtherNetwork)} ELSE {})
    \cup {Event("update", old, new) :
             old \in {o \in FirstSeen(kind) : Translates(kind, o)},
             new \in ObjectsOf(kind)}
    \cup {Event("delete", o, o) : o \in {x \in FirstSeen(kind) : Translates(kind, x)}}

\* handlers that pass every update on to the Cache
SkipsUpdate_Never(ev) == FALSE

\* Store.update*InCache: an update whose two objects carry the same
\* resourceVersion is dropped before the Cache is called
SkipsUpdate(ev) == ev.type = "update" /\ ev.old.resourceVersion = ev.obj.resourceVersion

\* the Cache method the handler of a notification calls
CacheMethod(c, kind, ev) ==
    IF kind = "networks"
    THEN IF ev.type = "add" THEN CacheAddNetwork(c, ev.obj)
         ELSE IF ev.type = "update" THEN CacheUpdateNetwork(c, ev.obj)
         ELSE CacheDeleteNetwork(c, ev.obj)
    ELSE IF kind = "usingIPs"
    THEN IF ev.type = "add" THEN CacheAddUsingIP(c, ev.obj)
         ELSE IF ev.type = "update" THEN CacheUpdateUsingIP(c, ev.obj)
         ELSE CacheDeleteUsingIP(c, ev.obj)
    ELSE IF ev.type = "add" THEN CacheAddLastReservedIP(c, ev.obj)
         ELSE IF ev.type = "update" THEN CacheUpdateLastReservedIP(c, ev.obj)
         ELSE CacheDeleteLastReservedIP(c, ev.obj)

\* the informer's thread calls the handler of its next notification
HandlerStart(h, ev) ==
    /\ thr[h].pc = "idle"
    /\ calls < MaxCalls
    /\ thr' = [thr EXCEPT ![h] =
                 [NoThread EXCEPT !.ev = ev, !.before = <<cache[1]>>,
                                  !.pc = IF SkipsUpdate(ev) THEN "idle" ELSE "lock",
                                  !.done = SkipsUpdate(ev)]]
    /\ calls' = calls + 1
    /\ UNCHANGED <<ty, kUsingIPs, kLastReservedIPs, kNetworks, kRV, cache, informer, mu,
                   pc, cur, last, race, granted, released, cmu>>

\* RWMutex.Lock, first half: the writer announces itself, one writer at a time
CanLock(m) == m.w = ""

HandlerLock(h) ==
    /\ thr[h].pc = "lock"
    /\ CanLock(cmu)
    /\ cmu' = [cmu EXCEPT !.w = h]
    /\ thr' = [thr EXCEPT ![h].pc = "wait"]
    /\ UNCHANGED <<ty, kUsingIPs, kLastReservedIPs, kNetworks, kRV, cache, informer, mu,
                   pc, cur, last, calls, race, granted, released>>

\* RWMutex.Lock, second half: the writer waits until the readers have left
ReadersGone(m) == m.readers = {}

HandlerEnter(h) ==
    /\ thr[h].pc = "wait"
    /\ ReadersGone(cmu)
    /\ cmu' = [cmu EXCEPT !.held = TRUE]
    /\ thr' = [thr EXCEPT ![h].pc = "modify"]
    /\ UNCHANGED <<ty, kUsingIPs, kLastReservedIPs, kNetworks, kRV, cache, informer, mu,
                   pc, cur, last, calls, race, granted, released>>

\* the body of the Cache method
HandlerModify(h) ==
    /\ thr[h].pc = "modify"
    /\ cache' = [cache EXCEPT ![1] = CacheMethod(@, h, thr[h].ev)]
    /\ thr' = [thr EXCEPT ![h].pc = "unlock"]
    /\ UNCHANGED <<ty, kUsingIPs, kLastReservedIPs, kNetworks, kRV, informer, mu,
                   pc, cur, last, calls, race, granted, released, cmu>>

\* the deferred Unlock, and the handler's return
HandlerUnlock(h) ==
    /\ thr[h].pc = "unlock"
    /\ cmu' = [cmu EXCEPT !.w = "", !.held = FALSE]
    /\ thr' = [thr EXCEPT ![h].pc = "idle", ![h].done = TRUE]
    /\ UNCHANGED <<ty, kUsingIPs, kLastReservedIPs, kNetworks, kRV, cache, informer, mu,
                   pc, cur, last, calls, race, granted, released>>

ReadKinds == {"GetNetwork", "GetLastReservedIP", "IsIPUsing"}

ReadKeys(read) ==
    IF read = "IsIPUsing" THEN {KeyOf(ip) : ip \in ReserveIPs} ELSE NetworkNames

\* a caller's thread calls one of the Cache's read methods
ReadStart(r, read, key) ==
    /\ thr[r].pc = "idle"
    /\ calls < MaxCalls
    /\ thr' = [thr EXCEPT ![r] = [NoThread EXCEPT !.read = read, !.key = key,
                                                  !.pc = "rlock"]]
    /\ calls' = calls + 1
    /\ UNCHANGED <<ty, kUsingIPs, kLastReservedIPs, kNetworks, kRV, cache, informer, mu,
                   pc, cur, last, race, granted, released, cmu>>

\* an RLock that does not wait for the writer
CanRLock_Always(m) == TRUE

\* RWMutex.RLock: granted while no writer holds the lock or has announced
\* itself
CanRLock(m) == m.w = ""

ReadLock(r) ==
    /\ thr[r].pc = "rlock"
    /\ CanRLock(cmu)
    /\ cmu' = [cmu EXCEPT !.readers = @ \cup {r}]
    /\ thr' = [thr EXCEPT ![r].pc = "lookup"]
    /\ UNCHANGED <<ty, kUsingIPs, kLastReservedIPs, kNetworks, kRV, cache, informer, mu,
                   pc, cur, last, calls, race, granted, released>>

\* what the read method finds: something (TRUE) or nil / false
CacheRead(c, read, key) ==
    IF read = "GetNetwork" THEN CacheGetNetwork(c, key) # << >>
    ELSE IF read = "GetLastReservedIP" THEN CacheGetLastReservedIP(c, key) # << >>
    ELSE IsIPUsing(c, key)

ReadLookup(r) ==
    /\ thr[r].pc = "lookup"
    /\ thr' = [thr EXCEPT ![r].pc = "runlock",
                          ![r].found = CacheRead(cache[1], thr[r].read, thr[r].key)]
    /\ UNCHANGED <<ty, kUsingIPs, kLastReservedIPs, kNetworks, kRV, cache, informer, mu,
                   pc, cur, last, calls, race, granted, released, cmu>>

\* the deferred RUnlock, and the return
ReadUnlock(r) ==
    /\ thr[r].pc = "runlock"
    /\ cmu' = [cmu EXCEPT !.readers = @ \ {r}]
    /\ thr' = [thr EXCEPT ![r].pc = "idle", ![r].done = TRUE]
    /\ UNCHANGED <<ty, kUsingIPs, kLastReservedIPs, kNetworks, kRV, cache, informer, mu,
                   pc, cur, last, calls, race, granted, released>>

NextCache ==
    \/ \E h \in Handlers : \E ev \in Notifications(h) : HandlerStart(h, ev)
    \/ \E h \in Handlers : HandlerLock(h)
    \/ \E h \in Handlers : HandlerEnter(h)
    \/ \E h \in Handlers : HandlerModify(h)
    \/ \E h \in Handlers : HandlerUnlock(h)
    \/ \E r \in Readers, read \in ReadKinds :
          \E key \in ReadKeys(read) : ReadStart(r, read, key)
    \/ \E r \in Readers : ReadLock(r)
    \/ \E r \in Readers : ReadLookup(r)
    \/ \E r \in Readers : ReadUnlock(r)

SpecCache == Init /\ [][NextCache]_vars

\* the threads inside the Cache: past the Lock or RLock, before the unlock
Writing == {h \in Handlers : thr[h].pc \in {"modify", "unlock"}}

Reading == {r \in Readers : thr[r].pc \in {"lookup", "runlock"}}

\* C16: while a handler is inside the Cache changing one of its maps, no
\* other handler and no read is inside; the maps change only in a step of
\* the one handler inside; reads may be inside together.
C16_CacheLock ==
    /\ [](Writing # {} => (Cardinality(Writing) = 1 /\ Reading = {}))
    /\ [][cache' # cache =>
             \E h \in Handlers :
                /\ Writing = {h}
                /\ Reading = {}
                /\ thr[h].pc = "modify"
                /\ \A t \in Threads \ {h} : thr'[t] = thr[t]]_vars

\* two reads are inside the Cache together
C16_Witness == Reading = Readers /\ Cardinality(Readers) > 1

\* the handler of the thread has returned from its notification
Returned(h) == thr[h].pc = "idle" /\ thr[h].done

\* the read method that looks a key of the kind up
ReadOf(kind) ==
    IF kind = "networks" THEN "GetNetwork"
    ELSE IF kind = "usingIPs" THEN "IsIPUsing"
    ELSE "GetLastReservedIP"

SameVersion(ev) == ev.old.resourceVersion = ev.obj.resourceVersion

\* C17: for each of the three kinds, after the handler of an update whose
\* object carries a deletion marker (and a new resourceVersion) has returned,
\* the object's key is absent from the cache: GetNetwork and
\* GetLastReservedIP return nil, IsIPUsing returns false.
C17_DeletionMarkerDeletes ==
    \A h \in Handlers :
        (/\ Returned(h)
         /\ thr[h].ev.type = "update"
         /\ thr[h].ev.obj.deletionTimestamp
         /\ ~SameVersion(thr[h].ev))
        => ~CacheRead(cache[1], ReadOf(h), thr[h].ev.obj.name)

\* C18: after the handler of an update whose two objects carry the same
\* resourceVersion has returned, the cache's map of the kind is as it was
\* when the handler was called, deletion marker or not; the handler never
\* enters the Cache.
C18_SameVersionIsNoOp ==
    \A h \in Handlers :
        (thr[h].ev.type = "update" /\ SameVersion(thr[h].ev))
        => /\ thr[h].pc = "idle"
           /\ thr[h].done
           /\ cache[1][h] = thr[h].before[1][h]

\* an update with the same resourceVersion and a deletion marker has
\* returned, and the object is still in the cache
C18_Witness ==
    \E h \in Handlers :
        /\ Returned(h)
        /\ thr[h].ev.type = "update"
        /\ SameVersion(thr[h].ev)
        /\ thr[h].ev.obj.deletionTimestamp
        /\ CacheRead(cache[1], ReadOf(h), thr[h].ev.obj.name)

\* the handler was handed an add or an update of a network that does not
\* translate, and the update is not dropped for its resourceVersion
FailedTranslation(t) ==
    /\ t.ev.type \in {"add", "update"}
    /\ ~(t.ev.type = "update" /\ (SameVersion(t.ev) \/ t.ev.obj.deletionTimestamp))
    /\ GetNetworkFromCRD(t.ev.obj) = << >>

\* C19: when the translation of a network fails on an add or an update, the
\* handler returns; afterwards GetNetwork reports the network as absent,
\* also when an earlier version was cached, and every other entry of the
\* cache is as it was: the other networks, and the maps of the other kinds
\* in the handler's step.
C19_FailedTranslation ==
    /\ [](LET t == thr["networks"]
          IN  ((Returned("networks") \/ t.pc = "unlock") /\ FailedTranslation(t))
              => /\ StoreGetNetwork(cache[1], t.ev.obj.name)
                        = [net |-> << >>, err |-> "NotInCache"]
                 /\ \A n \in (DOMAIN cache[1].networks \cup DOMAIN t.before[1].networks)
                              \ {t.ev.obj.name} :
                        /\ Has(cache[1].networks, n)
                        /\ Has(t.before[1].networks, n)
                        /\ cache[1].networks[n] = t.before[1].networks[n])
    /\ [][(thr["networks"].pc = "modify" /\ thr'["networks"].pc = "unlock")
            => /\ cache'[1].usingIPs = cache[1].usingIPs
               /\ cache'[1].lastReservedIPs = cache[1].lastReservedIPs]_vars
    /\ [][(thr["networks"].pc = "unlock" /\ FailedTranslation(thr["networks"])
           /\ thr'["networks"] # thr["networks"])
            => Returned("networks")']_vars

\* the update of a cached network has failed to translate and has returned
C19_Witness ==
    LET t == thr["networks"]
    IN  /\ Returned("networks")
        /\ t.ev.type = "update"
        /\ FailedTranslation(t)
        /\ StoreGetNetwork(t.before[1], t.ev.obj.name).err = "nil"
        /\ StoreGetNetwork(cache[1], t.ev.obj.name).err = "NotInCache"

-----------------------------------------------------------------------------
(* The caches and the API server: the three informers of NewStore, started
   by Run with the objects the API server holds, and the six operations
   writing to the API server *)

\* the cache after the add notifications of the objects the informers list
\* when Run starts them and waits for them to sync
RECURSIVE Listed(_, _, _)
Listed(c, nets, lris) ==
    IF DOMAIN nets # {}
    THEN LET k == CHOOSE x \in DOMAIN nets : TRUE
         IN  Listed(CacheAddNetwork(c, nets[k]), Del(nets, k), lris)
    ELSE IF DOMAIN lris # {}
    THEN LET k == CHOOSE x \in DOMAIN lris : TRUE
         IN  Listed(CacheAddLastReservedIP(c, lris[k]), nets, Del(lris, k))
    ELSE c

\* process 1's informers are followed; process 2 writes with the cache it
\* started with, as any other client of the API server
InitSync ==
    /\ kUsingIPs = EmptyMap
    /\ kLastReservedIPs \in InitialMarkers
    /\ kNetworks \in InitialNetworksAll
    /\ cache = [p \in Procs |-> Listed(NewCache, kNetworks, kLastReservedIPs)]
    /\ kRV = 1
    /\ informer = [p \in Procs |->
                     IF p = 1 THEN [networks |-> << >>, usingIPs |-> << >>,
                                    lastReservedIPs |-> << >>]
                     ELSE << >>]
    /\ mu = [p \in Procs |-> 0]
    /\ pc = [c \in Callers |-> "idle"]
    /\ cur = [c \in Callers |-> NoCall]
    /\ last = [c \in Callers |-> << >>]
    /\ calls = 0
    /\ race = << >>
    /\ granted = [k \in {KeyOf(ip) : ip \in ReserveIPs} |-> 0]
    /\ released = [k \in {KeyOf(ip) : ip \in ReserveIPs} |-> FALSE]
    /\ cmu = NewRWMutex
    /\ thr = [t \in Threads |-> NoThread]
    /\ ty = NoTypes

\* the handlers of process p's informers
Deliver(p) ==
    \/ AddUsingIPToCache(p)
    \/ DeleteUsingIPFromCache(p)
    \/ AddLastReservedIPToCache(p)
    \/ UpdateLastReservedIPInCache(p)
    \/ AddNetworkToCache(p)
    \/ UpdateNetworkInCache(p)
    \/ DeleteNetworkFromCache(p)

NextSync ==
    \/ \E c \in Writers, n \in NetworkNames, pl \in PoolNames, ip \in ReserveIPs :
          ReserveEnter(c, n, pl, ip)
    \/ \E c \in Writers : ReserveCreate(c)
    \/ \E c \in Writers : ReserveLRIGet(c)
    \/ \E c \in Writers : ReserveLRICreate(c)
    \/ \E c \in Writers : ReserveLRIUpdate(c)
    \/ \E c \in Writers, ip \in ReserveIPs : ReleaseEnter(c, ip)
    \/ \E c \in Writers : ReleaseDelete(c)
    \/ \E c \in Writers, n \in NetworkNames : CreateNetworkEnter(c, n)
    \/ \E c \in Writers : CreateNetworkCreate(c)
    \/ \E c \in Writers, n \in NetworkNames : DeleteNetworkEnter(c, n)
    \/ \E c \in Writers : DeleteNetworkDelete(c)
    \/ \E c \in Writers, n \in NetworkNames : DelPoolEnter(c, n, Pool1.Name)
    \/ \E c \in Writers : DelPoolGet(c)
    \/ \E c \in Writers : DelPoolUpdate(c)
    \/ \E c \in Writers : Return(c)
    \/ \E p \in Procs : Deliver(p)

\* every informer keeps calling its handlers while notifications are pending
SpecSync == InitSync /\ [][NextSync]_vars /\ \A p \in Procs : WF_vars(Deliver(p))

\* no operation is running and none can start: the API server's objects
\* stay as they are
ChangesStopped == calls = MaxCalls /\ \A c \in Callers : pc[c] = "idle"

\* every notification handed to process p's informers has been handled
Delivered(p) == \A kind \in DOMAIN informer[p] : informer[p][kind] = << >>

\* process p's cache holds what the API server holds: the same keys for each
\* of the three kinds, IsIPUsing true for the in-use objects that exist,
\* GetNetwork giving every network with its pools as stored
Consistent(p) ==
    /\ DOMAIN cache[p].networks = DOMAIN kNetworks
    /\ DOMAIN cache[p].usingIPs = DOMAIN kUsingIPs
    /\ DOMAIN cache[p].lastReservedIPs = DOMAIN kLastReservedIPs
    /\ \A ip \in ReserveIPs : IsIPUsing(cache[p], KeyOf(ip)) <=> Has(kUsingIPs, KeyOf(ip))
    /\ \A n \in NetworkNames :
          IF Has(kNetworks, n)
          THEN /\ StoreGetNetwork(cache[p], n).err = "nil"
               /\ StoreGetNetwork(cache[p], n).net = GetNetworkFromCRD(kNetworks[n])
          ELSE StoreGetNetwork(cache[p], n).err = "NotInCache"

\* the processes whose informers are followed
Followed == {p \in Procs : DOMAIN informer[p] # {}}

\* C20: the operations being finitely many, the changes of the API server's
\* objects stop; under fair delivery every followed process then gets
\* through its pending notifications and its cache holds, from some point on
\* for ever, exactly the keys the API server holds for each of the three
\* kinds; and at any time a cache whose notifications are all delivered
\* holds them.
C20_EventuallyConsistent ==
    /\ <>[](\A p \in Followed : Delivered(p) /\ Consistent(p))
    /\ [](\A p \in Followed : Delivered(p) => Consistent(p))

\* the changes have stopped after writes to the API server, and a followed
\* cache, not empty, has caught up
C20_Witness ==
    /\ ChangesStopped
    /\ \E p \in Followed : Delivered(p) /\ Consistent(p) /\ cache[p] # NewCache
    /\ kRV > 2

-----------------------------------------------------------------------------
(* The functions of package types and package utils, each called on inputs
   drawn from the sets below *)

\* the 16-byte form net.ParseIP gives an IPv4 address
Long(ip) == V4InV6Prefix \o ip

\* 2001:db8::1, an address with no 4-byte form
AddrV6 == <<32, 1, 13, 184, 0, 0, 0, 0, 0, 0, 0, 0, 0, 0, 0, 1>>

Subnet22 == <<IPNet(<<172, 16, 0, 0>>, 22)>>
Subnet31 == <<IPNet(<<192, 168, 0, 0>>, 31)>>
\* 192.168.0.5/24 kept with its host bits
SubnetHostBits == <<[IP |-> <<192, 168, 0, 5>>, Mask |-> CIDRMask(24)]>>
\* 2001:db8::/64
SubnetV6 ==
    <<[IP |-> <<32, 1, 13, 184, 0, 0, 0, 0, 0, 0, 0, 0, 0, 0, 0, 0>>,
       Mask |-> <<255, 255, 255, 255, 255, 255, 255, 255, 0, 0, 0, 0, 0, 0, 0, 0>>]>>
\* 192.168.0.0/24 with the address in its 16-byte form
SubnetLong == <<[IP |-> Long(<<192, 168, 0, 0>>), Mask |-> CIDRMask(24)]>>

TestSubnets ==
    {<< >>, Subnet24, Subnet26, Subnet22, Subnet30, Subnet31, SubnetHostBits,
     SubnetV6, SubnetLong}

TestGateways ==
    {NilIP, <<192, 168, 0, 1>>, Long(<<192, 168, 0, 2>>), <<172, 16, 1, 1>>,
     <<10, 0, 0, 1>>, <<192, 168, 2, 2>>}

TestStarts ==
    {NilIP, <<192, 168, 0, 10>>, Long(<<192, 168, 0, 100>>), <<192, 168, 1, 10>>, AddrV6}

TestEnds ==
    {NilIP, <<192, 168, 0, 50>>, Long(<<192, 168, 0, 250>>), <<192, 168, 1, 100>>,
     <<192, 168, 0, 5>>, <<172, 16, 1, 1>>}

TestVlans ==
    {<< >>, <<-100>>, <<0>>, <<1>>, <<50>>, <<1005>>, <<1006>>, <<1010>>, <<1024>>,
     <<1025>>, <<4094>>, <<4095>>}

\* the pools handed to Validate, Canonicalize and Contains: every combination
\* of gateway, subnet, start and end under a good name, and every
\* combination of name and VLAN id over fewer of the other fields
TestPools ==
    {Pool("p1", st, en, gw, sn, << >>) :
        st \in TestStarts, en \in TestEnds, gw \in TestGateways, sn \in TestSubnets}
    \cup
    {Pool(nm, en, en, gw, sn, vl) :
        nm \in {"", "p1"}, vl \in TestVlans,
        en \in {NilIP, <<192, 168, 1, 100>>},
        gw \in {NilIP, <<192, 168, 0, 1>>, <<192, 168, 2, 2>>},
        sn \in {<< >>, Subnet24, Subnet31}}

\* the addresses handed to Contains
TestAddrs ==
    {NilIP, <<192, 168, 0, 10>>, Long(<<192, 168, 0, 50>>), <<192, 168, 0, 100>>,
     Long(<<192, 168, 0, 250>>), <<192, 168, 0, 5>>, <<192, 168, 0, 0>>,
     <<192, 168, 0, 255>>, <<192, 168, 1, 100>>, <<172, 16, 3, 254>>, AddrV6}

\* a call of Pool.Validate; the checks leave the pool as it is
CallValidate ==
    /\ ty.op = "input"
    /\ ty.kind = "pool"
    /\ ty' = [op |-> "Validate", kind |-> "pool", pool |-> ty.pool,
              err |-> Validate(ty.pool), after |-> ty.pool]
    /\ UNCHANGED <<kUsingIPs, kLastReservedIPs, kNetworks, kRV, cache, informer, mu,
                   pc, cur, last, calls, race, granted, released, cmu, thr>>

\* a call of Pool.Canonicalize
CallCanonicalize ==
    /\ ty.op = "input"
    /\ ty.kind = "pool"
    /\ ty' = [op |-> "Canonicalize", kind |-> "pool", pool |-> ty.pool,
              err |-> Canonicalize(ty.pool).err, after |-> Canonicalize(ty.pool).pool]
    /\ UNCHANGED <<kUsingIPs, kLastReservedIPs, kNetworks, kRV, cache, informer, mu,
                   pc, cur, last, calls, race, granted, released, cmu, thr>>

\* a call of Pool.Contains, on a pool that has a subnet
CallContains(addr) ==
    /\ ty.op = "input"
    /\ ty.kind = "pool"
    /\ ty.pool.Subnet # << >>
    /\ ty' = [op |-> "Contains", kind |-> "pool", pool |-> ty.pool, addr |-> addr,
              out |-> PoolContains(ty.pool, addr)]
    /\ UNCHANGED <<kUsingIPs, kLastReservedIPs, kNetworks, kRV, cache, informer, mu,
                   pc, cur, last, calls, race, granted, released, cmu, thr>>

\* the subnets handed to lastIP: every prefix length on a few addresses, as
\* net.ParseCIDR gives them
TestNets ==
    {[IP |-> IPMasked(a, CIDRMask(n)), Mask |-> CIDRMask(n)] :
        a \in {<<192, 168, 0, 0>>, <<172, 16, 0, 0>>, <<10, 255, 255, 255>>,
               <<255, 255, 255, 255>>},
        n \in 0..32}

\* a call of lastIP
CallLastIP ==
    /\ ty.op = "input"
    /\ ty.kind = "subnet"
    /\ ty' = [op |-> "lastIP", kind |-> "subnet", subnet |-> ty.subnet,
              out |-> LastIP(ty.subnet)]
    /\ UNCHANGED <<kUsingIPs, kLastReservedIPs, kNetworks, kRV, cache, informer, mu,
                   pc, cur, last, calls, race, granted, released, cmu, thr>>

\* an Index that does not ask the pool whether it contains the address
Index_NoContains(l, n) ==
    LET m == {i \in 1..Len(n.Pools) : n.Pools[i].Name = l.PoolName}
        poolIndex == IF m = {} THEN -1 ELSE (CHOOSE i \in m : \A j \in m : i <= j) - 1
    IN  IF poolIndex < 0 THEN [idx |-> -1, err |-> "PoolNotInNetwork"]
        ELSE [idx |-> poolIndex, err |-> "nil"]

\* types.LastReservedIP.Index: the index (from 0) of the first pool with the
\* marker's PoolName, or -1 and the error
Index(l, n) ==
    LET m == {i \in 1..Len(n.Pools) : n.Pools[i].Name = l.PoolName}
        poolIndex == IF m = {} THEN -1 ELSE (CHOOSE i \in m : \A j \in m : i <= j) - 1
    IN  IF poolIndex < 0 THEN [idx |-> -1, err |-> "PoolNotInNetwork"]
        ELSE IF ~PoolContains(n.Pools[poolIndex + 1], l.IP)
             THEN [idx |-> -1, err |-> "IPNotInPool"]
        ELSE [idx |-> poolIndex, err |-> "nil"]

\* the markers and networks handed to Index
TestMarkers ==
    {[IP |-> a, PoolName |-> pn] :
        a \in {NilIP, <<192, 168, 0, 10>>, Long(<<192, 168, 0, 10>>), Long(<<10, 0, 0, 1>>),
               Long(<<192, 168, 1, 1>>)},
        pn \in {"p1", "p3", "px"}}

TestNetworks ==
    {[Name |-> "n1", Pools |-> pools] :
        pools \in {<< >>,
                   <<Canonicalize(Pool1).pool>>,
                   <<Canonicalize(Pool1).pool, Canonicalize(Pool3).pool>>,
                   <<Canonicalize(Pool3).pool, Canonicalize(Pool1).pool>>,
                   <<Pool3, Pool1>>,
                   <<Canonicalize(Pool3).pool, Canonicalize(Pool3On26).pool>>}}

\* a call of LastReservedIP.Index; it assigns to neither of its arguments
CallIndex ==
    /\ ty.op = "input"
    /\ ty.kind = "marker"
    /\ ty' = [op |-> "Index", kind |-> "marker", marker |-> ty.marker,
              network |-> ty.network, out |-> Index(ty.marker, ty.network),
              markerAfter |-> ty.marker, networkAfter |-> ty.network]
    /\ UNCHANGED <<kUsingIPs, kLastReservedIPs, kNetworks, kRV, cache, informer, mu,
                   pc, cur, last, calls, race, granted, released, cmu, thr>>

\* the letters and digits of the pattern DNSLabelRFC1123
AlphaNum ==
    {"a", "b", "c", "d", "e", "f", "g", "h", "i", "j", "k", "l", "m", "n", "o", "p",
     "q", "r", "s", "t", "u", "v", "w", "x", "y", "z",
     "A", "B", "C", "D", "E", "F", "G", "H", "I", "J", "K", "L", "M", "N", "O", "P",
     "Q", "R", "S", "T", "U", "V", "W", "X", "Y", "Z",
     "0", "1", "2", "3", "4", "5", "6", "7", "8", "9"}

\* utils.IsKubeName: ^[a-zA-Z0-9][-a-zA-Z0-9]{0,62}$
IsKubeName(str) ==
    /\ Len(str) \in 1..63
    /\ str[1] \in AlphaNum
    /\ \A i \in 2..Len(str) : str[i] \in AlphaNum \cup {"-"}

\* the addresses whose keys are derived
TestIPs ==
    {<<a, b, c, d>> : a \in {1, 10, 192, 255}, b \in {0, 16, 168}, c \in {0, 255},
                      d \in {0, 1, 10, 100, 255}}

\* Store.createUsingIP and deleteUsingIP derive the key with
\* utils.ToKubeName(ip.String()); ToIP is its way back
CallToKubeName ==
    /\ ty.op = "input"
    /\ ty.kind = "address"
    /\ ty' = [op |-> "ToKubeName", kind |-> "address", addr |-> ty.addr,
              key |-> ToKubeName(IPString(ty.addr)),
              back |-> ToIP(ToKubeName(IPString(ty.addr)))]
    /\ UNCHANGED <<kUsingIPs, kLastReservedIPs, kNetworks, kRV, cache, informer, mu,
                   pc, cur, last, calls, race, granted, released, cmu, thr>>

\* a notification handler as the informer calls it: Store.*ToCache,
\* *InCache, *FromCache and the Cache method behind it
Handle(c, kind, ev) == IF SkipsUpdate(ev) THEN c ELSE CacheMethod(c, kind, ev)

\* the caches a notification arrives at: empty, or holding one object
TestCaches ==
    {NewCache} \cup
    UNION {{Handle(NewCache, kind, Event("add", o, o)) : o \in ObjectsOf(kind)} :
              kind \in Handlers}

\* the informer hands the same notification to its handler twice in a row
CallHandlerTwice ==
    /\ ty.op = "input"
    /\ ty.kind = "notification"
    /\ ty' = [op |-> "HandlerTwice", kind |-> "notification", cache |-> ty.cache,
              handler |-> ty.handler, ev |-> ty.ev,
              once |-> Handle(ty.cache, ty.handler, ty.ev),
              twice |-> Handle(Handle(ty.cache, ty.handler, ty.ev), ty.handler, ty.ev)]
    /\ UNCHANGED <<kUsingIPs, kLastReservedIPs, kNetworks, kRV, cache, informer, mu,
                   pc, cur, last, calls, race, granted, released, cmu, thr>>

\* pools of 192.168.0.0/24 with one bound supplied, at or next to the
\* subnet's first or last address, and the other left to Canonicalize
BoundPools ==
    {Pool("p1", st, NilIP, <<192, 168, 0, 1>>, Subnet24, << >>) :
        st \in {<<192, 168, 0, 0>>, <<192, 168, 0, 254>>, <<192, 168, 0, 255>>}}
    \cup
    {Pool("p1", NilIP, en, <<192, 168, 0, 1>>, Subnet24, << >>) :
        en \in {<<192, 168, 0, 0>>, <<192, 168, 0, 1>>, <<192, 168, 0, 255>>}}

\* Pool.Canonicalize called, and called again on the pool it left
CallCanonicalizeTwice ==
    /\ ty.op = "input"
    /\ ty.kind \in {"pool", "bound"}
    /\ LET first == Canonicalize(ty.pool)
       IN  ty' = [op |-> "CanonicalizeTwice", kind |-> ty.kind, pool |-> ty.pool,
                  first |-> first, second |-> Canonicalize(first.pool)]
    /\ UNCHANGED <<kUsingIPs, kLastReservedIPs, kNetworks, kRV, cache, informer, mu,
                   pc, cur, last, calls, race, granted, released, cmu, thr>>

\* the pools a cached network holds when AddPool looks: canonical ones, on
\* the new pool's subnet, inside it, next to it and apart from it
CachedPools ==
    {Canonicalize(Pool1).pool,
     Canonicalize(Pool3).pool,
     Pool("c1", <<192, 168, 0, 1>>, <<192, 168, 0, 9>>, <<192, 168, 0, 1>>, Subnet24, << >>),
     Pool("c2", <<192, 168, 0, 51>>, <<192, 168, 0, 99>>, <<192, 168, 0, 1>>, Subnet24, << >>),
     Pool("c3", <<192, 168, 0, 255>>, <<192, 168, 1, 10>>, <<192, 168, 1, 1>>,
          <<IPNet(<<192, 168, 0, 0>>, 23)>>, << >>),
     Pool("c4", <<192, 167, 255, 250>>, <<192, 168, 0, 0>>, <<192, 160, 0, 1>>,
          <<IPNet(<<192, 160, 0, 0>>, 12)>>, << >>)}

CachedNetworks ==
    {[Name |-> "n1", Pools |-> pools] :
        pools \in {<< >>} \cup {<<c>> : c \in CachedPools}
                  \cup {<<Canonicalize(Pool3).pool, c>> : c \in CachedPools}}

\* the pools handed to AddPool: those of the pools above that Validate accepts
NewPools == {p \in TestPools \cup BoundPools : Validate(p) = "nil"}

\* Store.AddPool from the cached network to the result of Canonicalize
CallAddPoolCheck ==
    /\ ty.op = "input"
    /\ ty.kind = "addpool"
    /\ ty' = [op |-> "AddPoolCheck", kind |-> "addpool", network |-> ty.network,
              pool |-> ty.pool, out |-> AddPoolCheck(<<ty.network>>, ty.pool)]
    /\ UNCHANGED <<kUsingIPs, kLastReservedIPs, kNetworks, kRV, cache, informer, mu,
                   pc, cur, last, calls, race, granted, released, cmu, thr>>

\* the inputs of a call, one family for each function called
PoolInputs == {[op |-> "input", kind |-> "pool", pool |-> p] : p \in TestPools}

AddPoolCheckInputs ==
    {[op |-> "input", kind |-> "addpool", network |-> n, pool |-> p] :
        n \in CachedNetworks, p \in NewPools}

BoundInputs == {[op |-> "input", kind |-> "bound", pool |-> p] : p \in BoundPools}

SubnetInputs == {[op |-> "input", kind |-> "subnet", subnet |-> sn] : sn \in TestNets}

MarkerInputs ==
    {[op |-> "input", kind |-> "marker", marker |-> l, network |-> n] :
        l \in TestMarkers, n \in TestNetworks}

AddressInputs == {[op |-> "input", kind |-> "address", addr |-> a] : a \in TestIPs}

NotificationInputs(h) ==
    {[op |-> "input", kind |-> "notification", cache |-> c, handler |-> h, ev |-> ev] :
        c \in TestCaches, ev \in Notifications(h)}

InitTypes ==
    /\ kUsingIPs = EmptyMap
    /\ kLastReservedIPs = EmptyMap
    /\ kNetworks = EmptyMap
    /\ kRV = 0
    /\ cache = [p \in Procs |-> NewCache]
    /\ informer = [p \in Procs |-> NoEvents]
    /\ mu = [p \in Procs |-> 0]
    /\ pc = [c \in Callers |-> "idle"]
    /\ cur = [c \in Callers |-> NoCall]
    /\ last = [c \in Callers |-> << >>]
    /\ calls = 0
    /\ race = << >>
    /\ granted = [k \in {KeyOf(ip) : ip \in ReserveIPs} |-> 0]
    /\ released = [k \in {KeyOf(ip) : ip \in ReserveIPs} |-> FALSE]
    /\ cmu = NewRWMutex
    /\ thr = [t \in Threads |-> NoThread]
    /\ \/ ty \in PoolInputs
       \/ ty \in BoundInputs
       \/ ty \in AddPoolCheckInputs
       \/ ty \in SubnetInputs
       \/ ty \in MarkerInputs
       \/ ty \in AddressInputs
       \/ \E h \in Handlers : ty \in NotificationInputs(h)

NextTypes ==
    \/ CallValidate
    \/ CallCanonicalize
    \/ CallCanonicalizeTwice
    \/ CallAddPoolCheck
    \/ \E addr \in TestAddrs : CallContains(addr)
    \/ CallLastIP
    \/ CallIndex
    \/ CallToKubeName
    \/ CallHandlerTwice

SpecTypes == InitTypes /\ [][NextTypes]_vars

-----------------------------------------------------------------------------
(* Claims about the pool functions *)

\* a <= b for two addresses in their 4-byte form, byte by byte from the left
Leq4(a, b) ==
    \/ a = b
    \/ \E i \in 1..4 : a[i] < b[i] /\ \A j \in 1..(i - 1) : a[j] = b[j]

\* the subnet is an IPv4 one in ParseCIDR's form, so that it has a first and
\* a last address
PlainSubnet(sn) == Len(sn.IP) = 4 /\ Len(sn.Mask) = 4 /\ MaskLengthFrom(sn.Mask, 1) # -1

\* the highest address of the subnet
Broadcast(sn) == [i \in 1..4 |-> BitOr(sn.IP[i], ByteNot(sn.Mask[i]))]

\* the address has a 4-byte form that lies between the subnet's first and
\* last address
InSubnet(sn, a) ==
    /\ To4(a) # NilIP
    /\ Leq4(IPMasked(sn.IP, sn.Mask), To4(a))
    /\ Leq4(To4(a), Broadcast(sn))

\* the eleven checks in the claimed order, each as the claim words it; the
\* checks of the subnet are asked of a subnet that is there, the later ones
\* of a subnet the earlier ones have passed
FailsCheck(k, p) ==
    LET sn == p.Subnet[1]
    IN  IF k = 1 THEN p.Name = ""
        ELSE IF k = 2 THEN p.VlanID # << >>
                           /\ (p.VlanID[1] <= 0 \/ p.VlanID[1] \in 1006..1024
                               \/ p.VlanID[1] > 4094)
        ELSE IF k = 3 THEN p.Gateway = NilIP
        ELSE IF k = 4 THEN p.Subnet = << >>
        ELSE IF k = 5 THEN To4(sn.IP) = NilIP
        ELSE IF k = 6 THEN MaskSize(sn.Mask).ones > MaskSize(sn.Mask).bits - 2
        ELSE IF k = 7 THEN Len(sn.IP) # Len(sn.Mask)
        ELSE IF k = 8 THEN IPMasked(sn.IP, sn.Mask) # sn.IP
        ELSE IF k = 9 THEN ~InSubnet(sn, p.Gateway)
        ELSE IF k = 10 THEN p.PoolStart # NilIP /\ ~InSubnet(sn, p.PoolStart)
        ELSE p.PoolEnd # NilIP /\ ~InSubnet(sn, p.PoolEnd)

RECURSIVE FirstFailedFrom(_, _)
FirstFailedFrom(k, p) ==
    IF k > 11 THEN 0
    ELSE IF FailsCheck(k, p) THEN k
    ELSE FirstFailedFrom(k + 1, p)

\* the first check of the claimed list that the pool fails, 0 when none
FirstFailed(p) == FirstFailedFrom(1, p)

\* the reasons Validate gives for a failure of check k
ReasonsOf(k) ==
    IF k = 1 THEN {"EmptyName"} ELSE IF k = 2 THEN {"InvalidVlan"}
    ELSE IF k = 3 THEN {"NoGateway"} ELSE IF k = 4 THEN {"NoSubnet"}
    ELSE IF k = 5 THEN {"NotIPv4"} ELSE IF k = 6 THEN {"SubnetTooSmall"}
    ELSE IF k = 7 THEN {"VersionMismatch"} ELSE IF k = 8 THEN {"HostBitsSet"}
    ELSE IF k = 9 THEN {"GatewayNotInSubnet"}
    ELSE IF k = 10 THEN {"NotIPv4", "PoolStartNotInSubnet"}
    ELSE {"NotIPv4", "PoolEndNotInSubnet"}

\* C21 as stated: Validate checks name, vlan range, gateway presence, subnet
\* presence, subnet 4-byte form, subnet minimum size, subnet/mask length
\* match, network-address form, gateway in subnet, poolStart in subnet if
\* set, poolEnd in subnet if set, in this order; its error is the reason of
\* the first of these checks that the pool fails, and it returns ok only
\* when the pool fails none.
C21_ValidateOrder ==
    ty.op = "Validate" =>
        /\ FirstFailed(ty.pool) # 0 => ty.err \in ReasonsOf(FirstFailed(ty.pool))
        /\ ty.err = "nil" => FirstFailed(ty.pool) = 0

\* the tenth check as Validate makes it: poolStart, if set, is in the subnet
\* and not after a poolEnd that is set
StartFails(p) ==
    /\ p.PoolStart # NilIP
    /\ \/ ~InSubnet(p.Subnet[1], p.PoolStart)
       \/ p.PoolEnd # NilIP /\ IPCmp(p.PoolStart, p.PoolEnd) > 0

RECURSIVE FirstFailedFrom_Contains(_, _)
FirstFailedFrom_Contains(k, p) ==
    IF k > 11 THEN 0
    ELSE IF (IF k = 10 THEN StartFails(p) ELSE FailsCheck(k, p)) THEN k
    ELSE FirstFailedFrom_Contains(k + 1, p)

\* C21 amended: the same eleven checks in the same order, the tenth being
\* Contains(poolStart): poolStart, if set, in the subnet and not after a
\* poolEnd that is set.  The error is the reason of the first check the pool
\* fails, and Validate returns ok exactly when the pool fails none.
C21_ValidateOrderContains ==
    ty.op = "Validate" =>
        LET k == FirstFailedFrom_Contains(1, ty.pool)
        IN  /\ k # 0 => ty.err \in ReasonsOf(k)
            /\ k = 0 <=> ty.err = "nil"
            /\ ty.after = ty.pool

\* Validate has answered for a pool that fails several checks, the poolStart
\* one by its poolEnd alone
C21_Witness ==
    /\ ty.op = "Validate"
    /\ FirstFailed(ty.pool) = 11
    /\ FirstFailedFrom_Contains(1, ty.pool) = 10
    /\ ty.err = "PoolStartNotInSubnet"

\* the pool has one of the defects the claim lists; the defects of an
\* address's place are asked of an IPv4 subnet in ParseCIDR's form
Defective(p) ==
    \/ p.Name = ""
    \/ p.VlanID # << >>
       /\ (p.VlanID[1] <= 0 \/ p.VlanID[1] \in 1006..1024 \/ p.VlanID[1] > 4094)
    \/ p.Gateway = NilIP
    \/ p.Subnet = << >>
    \/ /\ p.Subnet # << >>
       /\ LET sn == p.Subnet[1]
          IN  \/ MaskSize(sn.Mask).ones > MaskSize(sn.Mask).bits - 2
              \/ /\ PlainSubnet(sn)
                 /\ \/ IPMasked(sn.IP, sn.Mask) # sn.IP
                    \/ ~InSubnet(sn, p.Gateway)
                    \/ p.PoolStart # NilIP /\ ~InSubnet(sn, p.PoolStart)
                    \/ p.PoolEnd # NilIP /\ ~InSubnet(sn, p.PoolEnd)
                    \/ /\ p.PoolStart # NilIP
                       /\ p.PoolEnd # NilIP
                       /\ To4(p.PoolStart) # NilIP
                       /\ To4(p.PoolEnd) # NilIP
                       /\ ~Leq4(To4(p.PoolStart), To4(p.PoolEnd))

\* the VLAN ids the claim says are accepted
VlanAccepted(v) == v = << >> \/ v[1] \in 1..1005 \/ v[1] \in 1025..4094

\* C22: Validate rejects every pool with an empty name, a VLAN id <= 0, in
\* 1006..1024 or > 4094, no gateway, no subnet, a subnet smaller than a /30,
\* a subnet address with host bits set, a gateway outside the subnet, a
\* poolStart or poolEnd outside the subnet, or a poolStart after poolEnd; a
\* VLAN id in 1..1005 or 1025..4094, or none, is never the reason of a
\* rejection, and a pool with such an id and no defect is accepted.
C22_ValidateRejects ==
    ty.op = "Validate" =>
        /\ Defective(ty.pool) => ty.err # "nil"
        /\ VlanAccepted(ty.pool.VlanID) => ty.err # "InvalidVlan"
        /\ (VlanAccepted(ty.pool.VlanID) /\ ~Defective(ty.pool)
            /\ ty.pool.Subnet # << >> /\ PlainSubnet(ty.pool.Subnet[1])) => ty.err = "nil"

\* Validate has rejected a pool whose only defect is a VLAN id of the
\* reserved range
C22_Witness ==
    /\ ty.op = "Validate"
    /\ ty.pool.VlanID # << >>
    /\ ty.pool.VlanID[1] \in {1006, 1024}
    /\ ~Defective([ty.pool EXCEPT !.VlanID = <<1005>>])
    /\ ty.err = "InvalidVlan"

Wide(a) ==
    IF To4(a) # NilIP THEN [i \in 1..16 |-> IF i <= 12 THEN 0 ELSE To4(a)[i - 12]]
    ELSE a

\* a <= b as numbers
LeqWide(a, b) ==
    \/ Wide(a) = Wide(b)
    \/ \E i \in 1..16 : /\ Wide(a)[i] < Wide(b)[i]
                        /\ \A j \in 1..(i - 1) : Wide(a)[j] = Wide(b)[j]

\* the address lies between the first and the last address of the subnet;
\* an IPv6 subnet holds no address that has a 4-byte form
InsideSubnet(sn, a) ==
    /\ Len(sn.Mask) = 4
    /\ To4(sn.IP) # NilIP
    /\ InSubnet([IP |-> To4(sn.IP), Mask |-> sn.Mask], a)

\* C24: Contains(addr) is true exactly when addr has a 4-byte form, lies
\* inside the subnet, is not below a poolStart that is set and not above a
\* poolEnd that is set; an address equal to poolStart or to poolEnd is in.
C24_ContainsIff ==
    ty.op = "Contains" =>
        ty.out = (/\ To4(ty.addr) # NilIP
                  /\ InsideSubnet(ty.pool.Subnet[1], ty.addr)
                  /\ ty.pool.PoolStart = NilIP \/ LeqWide(ty.pool.PoolStart, ty.addr)
                  /\ ty.pool.PoolEnd = NilIP \/ LeqWide(ty.addr, ty.pool.PoolEnd))

\* Contains has answered true for the poolEnd of a pool that has a lower
\* poolStart
C24_Witness ==
    /\ ty.op = "Contains"
    /\ ty.pool.PoolStart = <<192, 168, 0, 10>>
    /\ ty.pool.PoolEnd = <<192, 168, 0, 50>>
    /\ To4(ty.addr) = ty.pool.PoolEnd
    /\ ty.out

\* C25: for an IPv4 subnet of prefix length <= 30, lastIP is the broadcast
\* address with its final byte decremented by one, the final byte of the
\* broadcast address is not zero, and the result lies inside the subnet;
\* 192.168.0.0/24 gives 192.168.0.254, 172.16.0.0/22 gives 172.16.3.254 and
\* 192.168.0.0/26 gives 192.168.0.62.
C25_LastUsable ==
    (ty.op = "lastIP" /\ PlainSubnet(ty.subnet) /\ MaskSize(ty.subnet.Mask).ones <= 30) =>
        /\ Broadcast(ty.subnet)[4] >= 1
        /\ ty.out = [Broadcast(ty.subnet) EXCEPT ![4] = @ - 1]
        /\ InSubnet(ty.subnet, ty.out)
        /\ ty.subnet = IPNet(<<192, 168, 0, 0>>, 24) => ty.out = <<192, 168, 0, 254>>
        /\ ty.subnet = IPNet(<<172, 16, 0, 0>>, 22) => ty.out = <<172, 16, 3, 254>>
        /\ ty.subnet = IPNet(<<192, 168, 0, 0>>, 26) => ty.out = <<192, 168, 0, 62>>

\* lastIP has answered for 172.16.0.0/22
C25_Witness ==
    /\ ty.op = "lastIP"
    /\ ty.subnet = IPNet(<<172, 16, 0, 0>>, 22)
    /\ ty.out = <<172, 16, 3, 254>>

-----------------------------------------------------------------------------
(* Claims about the marker's index and the in-use key *)

\* the places (from 1) of the pools with the marker's PoolName
Named(l, n) == {i \in 1..Len(n.Pools) : n.Pools[i].Name = l.PoolName}

\* C26: Index returns an error when no pool of the network has the marker's
\* PoolName, an error when the first pool with that name does not contain
\* the marker's address, and otherwise that pool's index counted from 0;
\* the marker and the network are afterwards as they were.
C26_IndexOfMarker ==
    ty.op = "Index" =>
        LET named == Named(ty.marker, ty.network)
            first == CHOOSE i \in named : \A j \in named : i <= j
        IN  /\ named = {} => ty.out.err = "PoolNotInNetwork"
            /\ (named # {} /\ ~PoolContains(ty.network.Pools[first], ty.marker.IP))
                   => ty.out.err = "IPNotInPool"
            /\ (named # {} /\ PoolContains(ty.network.Pools[first], ty.marker.IP))
                   => ty.out = [idx |-> first - 1, err |-> "nil"]
            /\ ty.markerAfter = ty.marker
            /\ ty.networkAfter = ty.network

\* Index has found the marker's pool in the second place of the network
C26_Witness ==
    /\ ty.op = "Index"
    /\ Len(ty.network.Pools) = 2
    /\ ty.network.Pools[2].Name = ty.marker.PoolName
    /\ ty.out = [idx |-> 1, err |-> "nil"]

\* C27: for a dotted-decimal IPv4 address, ToIP gives back the string the
\* key was derived from, no other address has the same key, and the key
\* matches the DNS-label pattern.
C27_KeyBijection ==
    ty.op = "ToKubeName" =>
        /\ ty.back = IPString(ty.addr)
        /\ \A b \in TestIPs : ToKubeName(IPString(b)) = ty.key => b = ty.addr
        /\ IsKubeName(ty.key)
        /\ Len(ty.key) <= 15
        /\ \A i \in 1..Len(ty.key) : ty.key[i] \in AlphaNum \cup {"-"}

\* the key of 255.168.255.100, the longest an address of the inputs gets,
\* has been derived and turned back
C27_Witness ==
    /\ ty.op = "ToKubeName"
    /\ ty.addr = <<255, 168, 255, 100>>
    /\ ty.key = <<"2", "5", "5", "-", "1", "6", "8", "-", "2", "5", "5", "-", "1", "0", "0">>
    /\ ty.back = <<"2", "5", "5", ".", "1", "6", "8", ".", "2", "5", "5", ".", "1", "0", "0">>

-----------------------------------------------------------------------------
(* The store with its eight operations and the handlers of process 1: the
   two reads, Store.GetNetwork and Store.GetLastReservedIP, join the
   operations that write *)

\* Store.GetLastReservedIP: a nil from the cache is the error "not in cache"
StoreGetLastReservedIP(c, name) ==
    LET lriCache == CacheGetLastReservedIP(c, name)
    IN  IF lriCache = << >> THEN [lri |-> << >>, err |-> "NotInCache"]
        ELSE [lri |-> lriCache, err |-> "nil"]

\* Store.GetNetwork, from s.RLock() to the answer; with one caller for each
\* process the read lock keeps out whom the lock keeps out
GetNetworkEnter(c, name) ==
    /\ MayStart(c)
    /\ ~InRace
    /\ LET ans == StoreGetNetwork(cache[ProcOf(c)], name)
       IN  cur' = [cur EXCEPT ![c] =
                     [NoCall EXCEPT !.op = "GetNetwork", !.network = name,
                                    !.after = <<ans.net>>, !.err = ans.err]]
    /\ pc' = [pc EXCEPT ![c] = "ret"]
    /\ mu' = [mu EXCEPT ![ProcOf(c)] = c]
    /\ calls' = Started
    /\ UNCHANGED <<ty, cmu, thr, kUsingIPs, kLastReservedIPs, kNetworks, kRV, cache, informer,
                   last, race, granted, released>>

\* Store.GetLastReservedIP, from s.RLock() to the answer
GetLastReservedIPEnter(c, name) ==
    /\ MayStart(c)
    /\ ~InRace
    /\ LET ans == StoreGetLastReservedIP(cache[ProcOf(c)], name)
       IN  cur' = [cur EXCEPT ![c] =
                     [NoCall EXCEPT !.op = "GetLastReservedIP", !.network = name,
                                    !.after = ans.lri, !.err = ans.err]]
    /\ pc' = [pc EXCEPT ![c] = "ret"]
    /\ mu' = [mu EXCEPT ![ProcOf(c)] = c]
    /\ calls' = Started
    /\ UNCHANGED <<ty, cmu, thr, kUsingIPs, kLastReservedIPs, kNetworks, kRV, cache, informer,
                   last, race, granted, released>>

\* the markers the API server starts with: none, or one an earlier Reserve
\* of another address in another pool has left
EarlierMarkers ==
    {EmptyMap} \cup
    {Put(EmptyMap, n, Object(n, 1, [ip |-> IPString(<<192, 168, 0, 9>>), poolName |-> "p0"])) :
        n \in NetworkNames}

\* the in-use records the API server starts with: none, or the one an
\* earlier Reserve of another address has left, naming network and pool
EarlierUsingIPs ==
    {EmptyMap} \cup
    {Put(EmptyMap, KeyOf(<<192, 168, 0, 9>>),
         Object(KeyOf(<<192, 168, 0, 9>>), 1,
                [podName |-> 0, podNamespace |-> "ns", network |-> n, pool |-> pl])) :
        n \in NetworkNames, pl \in PoolNames}

\* the cache after the informers' first listing, in-use records included
ListedAll(nets, lris, uips) ==
    LET c == Listed(NewCache, nets, lris)
    IN  [c EXCEPT !.usingIPs =
            [k \in DOMAIN uips |-> CacheAddUsingIP(NewCache, uips[k]).usingIPs[k]]]

InitStore ==
    /\ kUsingIPs \in EarlierUsingIPs
    /\ kLastReservedIPs \in EarlierMarkers
    /\ kNetworks \in InitialNetworksAll
    /\ cache = [p \in Procs |-> ListedAll(kNetworks, kLastReservedIPs, kUsingIPs)]
    /\ kRV = 1
    /\ informer = [p \in Procs |->
                     IF p = 1 THEN [networks |-> << >>, usingIPs |-> << >>,
                                    lastReservedIPs |-> << >>]
                     ELSE << >>]
    /\ mu = [p \in Procs |-> 0]
    /\ pc = [c \in Callers |-> "idle"]
    /\ cur = [c \in Callers |-> NoCall]
    /\ last = [c \in Callers |-> << >>]
    /\ calls = 0
    /\ race = << >>
    /\ granted = [k \in {KeyOf(ip) : ip \in ReserveIPs} |-> 0]
    /\ released = [k \in {KeyOf(ip) : ip \in ReserveIPs} |-> FALSE]
    /\ cmu = NewRWMutex
    /\ thr = [t \in Threads |-> NoThread]
    /\ ty = NoTypes

NextStore ==
    \/ \E c \in Writers, n \in NetworkNames, pl \in PoolNames, ip \in ReserveIPs :
          ReserveEnter(c, n, pl, ip)
    \/ \E c \in Writers : ReserveCreate(c)
    \/ \E c \in Writers : ReserveLRIGet(c)
    \/ \E c \in Writers : ReserveLRICreate(c)
    \/ \E c \in Writers : ReserveLRIUpdate(c)
    \/ \E c \in Writers, ip \in ReserveIPs : ReleaseEnter(c, ip)
    \/ \E c \in Writers : ReleaseDelete(c)
    \/ \E c \in Writers, n \in NetworkNames : CreateNetworkEnter(c, n)
    \/ \E c \in Writers : CreateNetworkCreate(c)
    \/ \E c \in Writers, n \in NetworkNames : DeleteNetworkEnter(c, n)
    \/ \E c \in Writers : DeleteNetworkDelete(c)
    \/ \E c \in Writers, n \in NetworkNames : AddPoolEnter(c, n, Pool3)
    \/ \E c \in Writers : AddPoolGet(c)
    \/ \E c \in Writers : AddPoolCreate(c)
    \/ \E c \in Writers, n \in NetworkNames : DelPoolEnter(c, n, Pool1.Name)
    \/ \E c \in Writers : DelPoolGet(c)
    \/ \E c \in Writers : DelPoolUpdate(c)
    \/ \E c \in Writers, n \in NetworkNames : GetNetworkEnter(c, n)
    \/ \E c \in Writers, n \in NetworkNames : GetLastReservedIPEnter(c, n)
    \/ \E c \in Writers : Return(c)
    \/ \E p \in Procs : Deliver(p)

SpecStore == InitStore /\ [][NextStore]_vars

-----------------------------------------------------------------------------
(* Claims about the store's marker and the cache as a shadow *)

\* C30: a notification handed to its handler twice in a row leaves the
\* cache as one delivery leaves it, for each kind of object, each of add,
\* update and delete, and each cache it arrives at.
C30_DuplicateTolerated ==
    ty.op = "HandlerTwice" => ty.twice = ty.once

\* a delete notification that took an entry out of the cache has been
\* delivered twice
C30_Witness ==
    /\ ty.op = "HandlerTwice"
    /\ ty.ev.type = "delete"
    /\ ty.once # ty.cache
    /\ ty.twice = ty.once

\* the marker of c's network is as c's Get found it: nobody has written it
\* since
MarkerAsGot(c) ==
    IF cur[c].got = << >> THEN ~Has(kLastReservedIPs, cur[c].network)
    ELSE /\ Has(kLastReservedIPs, cur[c].network)
         /\ kLastReservedIPs[cur[c].network] = cur[c].got[1]

\* c's step is the marker write of a Reserve in which no request failed
MarkerWrite(c) ==
    /\ cur[c].op = "Reserve"
    /\ pc[c] \in {"lri_create", "lri_update"}
    /\ pc'[c] = "ret"
    /\ ~cur'[c].failed

\* C28: a Reserve that reserved the address goes on to write the marker of
\* its network; when no request fails and nobody has written the marker
\* since the Reserve's Get, the write leaves the object named after the
\* network holding the Reserve's address and pool, created when the
\* API server had none and updated in place, under a new version, when it
\* had one, and no other marker is touched.
C28_MarkerAfterReserve ==
    /\ [](\A c \in Callers :
            (pc[c] = "ret" /\ cur[c].op = "Reserve" /\ cur[c].reserved /\ ~cur[c].failed)
                => cur[c].lriWrites = 1)
    /\ [][\A c \in Callers :
            (MarkerWrite(c) /\ MarkerAsGot(c)) =>
                LET name == cur[c].network
                IN  /\ cur[c].reserved
                    /\ cur'[c].lriErr = "nil"
                    /\ Has(kLastReservedIPs', name)
                    /\ kLastReservedIPs'[name].name = name
                    /\ kLastReservedIPs'[name].spec =
                          [ip |-> IPString(cur[c].ip), poolName |-> cur[c].pool]
                    /\ \A n \in DOMAIN kLastReservedIPs' \ {name} :
                          Has(kLastReservedIPs, n) /\ kLastReservedIPs'[n] = kLastReservedIPs[n]
                    /\ pc[c] = "lri_create" <=> ~Has(kLastReservedIPs, name)
                    /\ pc[c] = "lri_update" =>
                          /\ kLastReservedIPs'[name].resourceVersion >
                                kLastReservedIPs[name].resourceVersion
                          /\ kLastReservedIPs'[name].deletionTimestamp =
                                kLastReservedIPs[name].deletionTimestamp]_vars

\* a Reserve in which nothing failed has found the marker of an earlier
\* Reserve and has put its own address and pool there
C28_Witness ==
    \E c \in Callers :
        /\ pc[c] = "ret"
        /\ cur[c].op = "Reserve"
        /\ cur[c].reserved
        /\ ~cur[c].failed
        /\ cur[c].lriErr = "nil"
        /\ cur[c].got # << >>
        /\ cur[c].got[1].spec # [ip |-> IPString(cur[c].ip), poolName |-> cur[c].pool]
        /\ kLastReservedIPs[cur[c].network].spec =
              [ip |-> IPString(cur[c].ip), poolName |-> cur[c].pool]

\* a step of one of the eight operations: a caller moves, the lock or the
\* budget changes, or an object of the API server is written
OperationStep ==
    \/ pc' # pc
    \/ cur' # cur
    \/ mu' # mu
    \/ calls' # calls
    \/ StoreChanged

\* the step is the handler of the first pending notification of one of
\* process p's informers, and changes no other process's cache
HandlerStep(p) ==
    /\ \E kind \in DOMAIN informer[p] :
          /\ informer[p][kind] # << >>
          /\ informer' = Pop(p, kind)
          /\ cache'[p] = Handle(cache[p], kind, informer[p][kind][1])
    /\ \A q \in Procs \ {p} : cache'[q] = cache[q]
    /\ ~OperationStep

\* the in-use notifications of the processes whose informers are followed,
\* with ev appended
UsingIPNotified(ev) ==
    \A p \in Followed : informer'[p].usingIPs = Append(informer[p].usingIPs, ev)

\* C29: no step of CreateNetwork, DeleteNetwork, AddPool, DelPool, Reserve,
\* Release, GetNetwork or GetLastReservedIP changes a cache; a cache changes
\* only in a step of a notification handler of its process; the step in
\* which a Reserve creates the in-use object, or a Release deletes it,
\* queues the notification and leaves the caches as they are, so the change
\* shows in the caller's cache only once that notification is handled.
C29_CacheIsShadow ==
    [][/\ OperationStep => cache' = cache
       /\ cache' # cache => \E p \in Procs : HandlerStep(p)
       /\ \A c \in Callers :
             (pc[c] = "create" /\ pc'[c] = "lri_get" /\ cur'[c].reserved) =>
                 /\ ~Has(kUsingIPs, KeyOf(cur[c].ip))
                 /\ Has(kUsingIPs', KeyOf(cur[c].ip))
                 /\ UsingIPNotified(Event("add", kUsingIPs'[KeyOf(cur[c].ip)],
                                          kUsingIPs'[KeyOf(cur[c].ip)]))
                 /\ cache' = cache
       /\ \A c \in Callers :
             (pc[c] = "delete" /\ pc'[c] = "ret" /\ cur'[c].err = "nil") =>
                 /\ Has(kUsingIPs, KeyOf(cur[c].ip))
                 /\ ~Has(kUsingIPs', KeyOf(cur[c].ip))
                 /\ UsingIPNotified(Event("delete", kUsingIPs[KeyOf(cur[c].ip)],
                                          kUsingIPs[KeyOf(cur[c].ip)]))
                 /\ cache' = cache]_vars

\* a Reserve of process 1 has reserved the address and is about to return,
\* the add notification is waiting in the process's informer, and the
\* process's cache does not show the address yet
C29_Witness ==
    \E c \in Callers :
        /\ ProcOf(c) = 1
        /\ pc[c] = "ret"
        /\ cur[c].op = "Reserve"
        /\ cur[c].reserved
        /\ ~IsIPUsing(cache[1], KeyOf(cur[c].ip))
        /\ \E i \in 1..Len(informer[1].usingIPs) :
              /\ informer[1].usingIPs[i].type = "add"
              /\ informer[1].usingIPs[i].obj.name = KeyOf(cur[c].ip)
              /\ informer[1].usingIPs[i].obj.spec.podName = c

-----------------------------------------------------------------------------
(* Claims about Canonicalize, AddPool's overlap test, the frames of the
   operations and the two locks *)

\* C35: when Canonicalize succeeds, poolStart <= poolEnd, both lie in the
\* subnet, the pool contains both and passes Validate, and a second
\* Canonicalize succeeds and changes nothing; when it fails the pool is as
\* it was.
C35_CanonicalizeSound ==
    ty.op = "CanonicalizeTwice" =>
        /\ ty.first.err = "nil" =>
              LET q == ty.first.pool
              IN  /\ LeqWide(q.PoolStart, q.PoolEnd)
                  /\ InsideSubnet(q.Subnet[1], q.PoolStart)
                  /\ InsideSubnet(q.Subnet[1], q.PoolEnd)
                  /\ PoolContains(q, q.PoolStart)
                  /\ PoolContains(q, q.PoolEnd)
                  /\ Validate(q) = "nil"
                  /\ ty.second = [err |-> "nil", pool |-> q]
        /\ ty.first.err # "nil" => ty.first.pool = ty.pool

\* the addresses from a pool's poolStart to its poolEnd, both set, and
\* those of another such pool have an address in common
Intersects(p, q) ==
    /\ LeqWide(p.PoolStart, p.PoolEnd)
    /\ LeqWide(q.PoolStart, q.PoolEnd)
    /\ LeqWide(p.PoolStart, q.PoolEnd)
    /\ LeqWide(q.PoolStart, p.PoolEnd)

\* C34: for a new pool that passes Validate and a cached network, AddPool's
\* loop sees the pool as supplied; if the new pool's range after
\* Canonicalize has an address in common with the range of a cached pool,
\* AddPool returns the overlap or the duplicate-name error and sends
\* nothing, so a pool AddPool lets through has a canonical range apart from
\* every cached pool's.
C34_OverlapBeforeCanonicalize ==
    ty.op = "AddPoolCheck" =>
        LET canon == Canonicalize(ty.pool).pool
            hit == {i \in 1..Len(ty.network.Pools) : Intersects(canon, ty.network.Pools[i])}
        IN  /\ hit # {} => /\ ty.out.err \in {"Overlap", "DuplicateName"}
                           /\ ty.out.pool = ty.pool
            /\ ty.out.err = "nil" => hit = {}

\* AddPool has refused, as overlapping, a pool supplied without bounds
\* whose canonical range has no address in common with any cached pool
C34_Witness ==
    /\ ty.op = "AddPoolCheck"
    /\ ty.pool.PoolStart = NilIP
    /\ ty.pool.PoolEnd = NilIP
    /\ ty.out.err = "Overlap"
    /\ \A i \in 1..Len(ty.network.Pools) :
          ~Intersects(Canonicalize(ty.pool).pool, ty.network.Pools[i])

\* the step is one of caller c's, in a call of the operation op
StepOf(c, op) ==
    /\ pc'[c] # pc[c] \/ cur'[c] # cur[c]
    /\ cur[c].op = op \/ cur'[c].op = op

\* C33: no step of a DelPool or of a DeleteNetwork changes an in-use record
\* or a marker of the API server, and no step of a Release changes a network
\* record, a marker or the in-use record of an address other than its own.
C33_OnlyTheTarget ==
    [][\A c \in Callers :
          /\ (StepOf(c, "DelPool") \/ StepOf(c, "DeleteNetwork")) =>
                /\ kUsingIPs' = kUsingIPs
                /\ kLastReservedIPs' = kLastReservedIPs
          /\ StepOf(c, "Release") =>
                /\ kNetworks' = kNetworks
                /\ kLastReservedIPs' = kLastReservedIPs
                /\ DOMAIN kUsingIPs' \ {KeyOf(cur'[c].ip)} =
                      DOMAIN kUsingIPs \ {KeyOf(cur'[c].ip)}
                /\ \A k \in DOMAIN kUsingIPs' \ {KeyOf(cur'[c].ip)} :
                      kUsingIPs'[k] = kUsingIPs[k]]_vars

\* a DeleteNetwork has taken the network out of the API server, where the
\* marker and an in-use record naming the network are still to be found
C33_Witness ==
    \E c \in Callers :
        /\ pc[c] = "ret"
        /\ cur[c].op = "DeleteNetwork"
        /\ cur[c].changed
        /\ ~Has(kNetworks, cur[c].network)
        /\ Has(kLastReservedIPs, cur[c].network)
        /\ \E k \in DOMAIN kUsingIPs : kUsingIPs[k].spec.network = cur[c].network

\* the marker of network n is one the API server started with
EarlierMarker(n) ==
    \E m \in EarlierMarkers : Has(m, n) /\ m[n].spec = kLastReservedIPs[n].spec

\* a Create of the in-use object of address ip has succeeded: one has since
\* the last Release of ip, or a Release has deleted the object, which only
\* a Reserve can have created
EverGranted(ip) == granted[KeyOf(ip)] > 0 \/ released[KeyOf(ip)]

\* a Reserve of address ip may have returned true: the object has been
\* released, or more Creates have succeeded since than there are Reserve
\* calls that have reserved ip and are still under way
MayHaveReturnedTrue(ip) ==
    \/ released[KeyOf(ip)]
    \/ granted[KeyOf(ip)] >
          Cardinality({c \in Callers : /\ cur[c].op = "Reserve"
                                       /\ cur[c].reserved
                                       /\ cur[c].ip = ip})

\* C32, as stated: every marker in the API server holds the address and
\* pool of a Reserve that has returned true.
C32_MarkerOfReturnedReserve ==
    \A n \in DOMAIN kLastReservedIPs :
        \/ EarlierMarker(n)
        \/ \E ip \in ReserveIPs, pl \in PoolNames :
              /\ kLastReservedIPs[n].spec = [ip |-> IPString(ip), poolName |-> pl]
              /\ MayHaveReturnedTrue(ip)

\* C32, amended: every marker in the API server holds the address and pool
\* of a Reserve whose Create of the in-use object succeeded, a Reserve that
\* has returned true or is still under way and then returns true; a marker
\* changes only in the marker write of such a Reserve, which puts its
\* network's marker at its own address and pool and touches no other, so
\* no rejected or failed Reserve and no other operation writes one.
C32_MarkerOfGrantedReserve ==
    /\ [](\A n \in DOMAIN kLastReservedIPs :
            \/ EarlierMarker(n)
            \/ \E ip \in ReserveIPs, pl \in PoolNames :
                  /\ kLastReservedIPs[n].spec = [ip |-> IPString(ip), poolName |-> pl]
                  /\ EverGranted(ip))
    /\ [](\A c \in Callers :
            (cur[c].op = "Reserve" /\ cur[c].reserved /\ pc[c] = "ret")
                => ReserveReturn(cur[c]).reserved)
    /\ [][kLastReservedIPs' # kLastReservedIPs =>
            \E c \in Callers :
                /\ cur[c].op = "Reserve"
                /\ cur[c].reserved
                /\ cur[c].created
                /\ pc[c] \in {"lri_create", "lri_update"}
                /\ pc'[c] = "ret"
                /\ DOMAIN kLastReservedIPs' = DOMAIN kLastReservedIPs \cup {cur[c].network}
                /\ kLastReservedIPs'[cur[c].network].spec =
                      [ip |-> IPString(cur[c].ip), poolName |-> cur[c].pool]
                /\ \A n \in DOMAIN kLastReservedIPs \ {cur[c].network} :
                      kLastReservedIPs'[n] = kLastReservedIPs[n]]_vars

\* the marker holds the address and pool of a Reserve that has returned
\* true, and no call is under way
C32_Witness ==
    /\ \A c \in Callers : pc[c] = "idle"
    /\ \E n \in DOMAIN kLastReservedIPs, ip \in ReserveIPs, pl \in PoolNames :
          /\ kLastReservedIPs[n].spec = [ip |-> IPString(ip), poolName |-> pl]
          /\ ~EarlierMarker(n)
          /\ granted[KeyOf(ip)] > 0

-----------------------------------------------------------------------------
(* The two locks of process 1: the Store's RWMutex, taken by the eight
   operations, and the Cache's RWMutex, taken for reading by the Cache
   methods the operations call and for writing by the methods the
   notification handlers call.  The API server's objects are not followed
   here: each request is answered, with success or with an error. *)

\* the callers that share process 1's Store
LockCallers == {c \in Callers : ProcOf(c) = 1}

StoreOps ==
    {"CreateNetwork", "DeleteNetwork", "GetNetwork", "GetLastReservedIP",
     "AddPool", "DelPool", "Reserve", "Release"}

\* the operations that take the Store's lock with s.RLock()
SharedOps == {"GetNetwork", "GetLastReservedIP"}

\* the operations that call a read method of the Cache: DelPool and Release
\* go to the API server at once
ReadsCache(op) == op \notin {"DelPool", "Release"}

\* the most requests an operation sends
MaxRequests(op) ==
    IF op \in SharedOps THEN 0
    ELSE IF op = "Reserve" THEN 3
    ELSE IF op \in {"AddPool", "DelPool"} THEN 2
    ELSE 1

\* the callers holding the Store's lock for reading
StoreReaders ==
    {c \in LockCallers : /\ cur[c].op \in SharedOps
                         /\ pc[c] \in {"c_rlock", "c_lookup", "c_runlock", "s_unlock"}}

\* a caller calls an operation and arrives at s.Lock() or s.RLock()
OperationStart(c, op, name) ==
    /\ Idle(c)
    /\ calls < MaxCalls
    /\ cur' = [cur EXCEPT ![c] = [NoCall EXCEPT !.op = op, !.network = name,
                                                !.ip = <<192, 168, 0, 10>>]]
    /\ pc' = [pc EXCEPT ![c] = "s_lock"]
    /\ calls' = calls + 1
    /\ UNCHANGED <<ty, kUsingIPs, kLastReservedIPs, kNetworks, kRV, cache, informer, mu,
                   last, race, granted, released, cmu, thr>>

\* s.Lock(), first half: the writer announces itself, one writer at a time
StoreLock(c) ==
    /\ pc[c] = "s_lock"
    /\ cur[c].op \notin SharedOps
    /\ mu[1] = 0
    /\ mu' = [mu EXCEPT ![1] = c]
    /\ pc' = [pc EXCEPT ![c] = "s_wait"]
    /\ UNCHANGED <<ty, kUsingIPs, kLastReservedIPs, kNetworks, kRV, cache, informer,
                   cur, last, calls, race, granted, released, cmu, thr>>

\* s.Lock(), second half: the writer waits until the readers have left
StoreEnter(c) ==
    /\ pc[c] = "s_wait"
    /\ StoreReaders = {}
    /\ pc' = [pc EXCEPT ![c] = IF ReadsCache(cur[c].op) THEN "c_rlock" ELSE "request"]
    /\ UNCHANGED <<ty, kUsingIPs, kLastReservedIPs, kNetworks, kRV, cache, informer, mu,
                   cur, last, calls, race, granted, released, cmu, thr>>

\* s.RLock(): granted while no writer holds the lock or has announced itself
StoreRLock(c) ==
    /\ pc[c] = "s_lock"
    /\ cur[c].op \in SharedOps
    /\ mu[1] = 0
    /\ pc' = [pc EXCEPT ![c] = "c_rlock"]
    /\ UNCHANGED <<ty, kUsingIPs, kLastReservedIPs, kNetworks, kRV, cache, informer, mu,
                   cur, last, calls, race, granted, released, cmu, thr>>

\* c.RLock() of the Cache method the operation calls
CacheRLock(c) ==
    /\ pc[c] = "c_rlock"
    /\ CanRLock(cmu)
    /\ cmu' = [cmu EXCEPT !.readers = @ \cup {c}]
    /\ pc' = [pc EXCEPT ![c] = "c_lookup"]
    /\ UNCHANGED <<ty, kUsingIPs, kLastReservedIPs, kNetworks, kRV, cache, informer, mu,
                   cur, last, calls, race, granted, released, thr>>

\* what the operation does with the Cache's answer: TRUE when it goes on to
\* the API server, FALSE when it returns, with the answer or with an error
GoesOn(op, c, call) ==
    IF op = "CreateNetwork"
    THEN CreateNetworkCheck(CacheGetNetwork(c, call.network)) = "nil"
    ELSE IF op = "DeleteNetwork"
    THEN DeleteNetworkCheck(CacheGetNetwork(c, call.network)) = "nil"
    ELSE IF op = "AddPool"
    THEN AddPoolCheck(CacheGetNetwork(c, call.network), Pool3).err = "nil"
    ELSE IF op = "Reserve"
    THEN ~IsIPUsing(c, KeyOf(call.ip))
    ELSE FALSE

\* the body of the Cache's read method
CacheLookup(c) ==
    /\ pc[c] = "c_lookup"
    /\ cur' = [cur EXCEPT ![c].hit = GoesOn(cur[c].op, cache[1], cur[c])]
    /\ pc' = [pc EXCEPT ![c] = "c_runlock"]
    /\ UNCHANGED <<ty, kUsingIPs, kLastReservedIPs, kNetworks, kRV, cache, informer, mu,
                   last, calls, race, granted, released, cmu, thr>>

\* the deferred c.RUnlock(), and the operation's branch on the answer
CacheRUnlock(c) ==
    /\ pc[c] = "c_runlock"
    /\ cmu' = [cmu EXCEPT !.readers = @ \ {c}]
    /\ pc' = [pc EXCEPT ![c] = IF cur[c].hit THEN "request" ELSE "s_unlock"]
    /\ UNCHANGED <<ty, kUsingIPs, kLastReservedIPs, kNetworks, kRV, cache, informer, mu,
                   cur, last, calls, race, granted, released, thr>>

\* an operation that returns on an error without the deferred unlock
AfterRequest_NoDefer(op, reqs, ok) ==
    IF ~ok THEN "idle"
    ELSE IF reqs < MaxRequests(op) THEN "request"
    ELSE "s_unlock"

\* after the answer to its request an operation returns on an error, sends
\* its next request, or returns when it has sent its last; every return
\* runs the deferred s.Unlock()
AfterRequest(op, reqs, ok) ==
    IF ok /\ reqs < MaxRequests(op) THEN "request" ELSE "s_unlock"

\* a request to the API server and its answer
OperationRequest(c) ==
    /\ pc[c] = "request"
    /\ \E fail \in StoreFailures :
          /\ cur' = [cur EXCEPT ![c].reqs = @ + 1, ![c].failed = fail]
          /\ pc' = [pc EXCEPT ![c] = AfterRequest(cur[c].op, cur[c].reqs + 1, ~fail)]
    /\ UNCHANGED <<ty, kUsingIPs, kLastReservedIPs, kNetworks, kRV, cache, informer, mu,
                   last, calls, race, granted, released, cmu, thr>>

\* the deferred s.Unlock() or s.RUnlock(), and the operation's return
StoreUnlock(c) ==
    /\ pc[c] = "s_unlock"
    /\ mu' = [mu EXCEPT ![1] = IF @ = c THEN 0 ELSE @]
    /\ cur' = [cur EXCEPT ![c] = NoCall]
    /\ pc' = [pc EXCEPT ![c] = "idle"]
    /\ UNCHANGED <<ty, kUsingIPs, kLastReservedIPs, kNetworks, kRV, cache, informer,
                   last, calls, race, granted, released, cmu, thr>>

\* the steps of caller c's call once it has started
OperationRuns(c) ==
    \/ StoreLock(c)
    \/ StoreEnter(c)
    \/ StoreRLock(c)
    \/ CacheRLock(c)
    \/ CacheLookup(c)
    \/ CacheRUnlock(c)
    \/ OperationRequest(c)
    \/ StoreUnlock(c)

\* the steps of handler h once the informer has called it
HandlerRuns(h) ==
    \/ HandlerLock(h)
    \/ HandlerEnter(h)
    \/ HandlerModify(h)
    \/ HandlerUnlock(h)

\* the notifications handed to the handlers here: for each kind the add,
\* an update under the same version, an update under a new version and
\* the delete of one object, for the networks the second network, which
\* has no pools
LockNotifications(kind) ==
    LET objs == IF kind = "networks" THEN {OtherNetwork} ELSE FirstSeen(kind)
    IN  UNION {{Event("add", o, o),
                Event("update", o, o),
                Event("update", o, [o EXCEPT !.resourceVersion = 2]),
                Event("delete", o, o)} : o \in objs}

\* the network the operations are called for
LockNetworkNames == {OtherNetwork.name}

NextLocks ==
    \/ \E c \in LockCallers, op \in StoreOps, n \in LockNetworkNames :
          OperationStart(c, op, n)
    \/ \E c \in LockCallers : StoreLock(c)
    \/ \E c \in LockCallers : StoreEnter(c)
    \/ \E c \in LockCallers : StoreRLock(c)
    \/ \E c \in LockCallers : CacheRLock(c)
    \/ \E c \in LockCallers : CacheLookup(c)
    \/ \E c \in LockCallers : CacheRUnlock(c)
    \/ \E c \in LockCallers : OperationRequest(c)
    \/ \E c \in LockCallers : StoreUnlock(c)
    \/ \E h \in Handlers : \E ev \in LockNotifications(h) : HandlerStart(h, ev)
    \/ \E h \in Handlers : HandlerLock(h)
    \/ \E h \in Handlers : HandlerEnter(h)
    \/ \E h \in Handlers : HandlerModify(h)
    \/ \E h \in Handlers : HandlerUnlock(h)

\* the Go scheduler runs every thread that can take a step, a lock that is
\* free is handed to a thread waiting for it, and the API server answers
SpecLocks ==
    /\ Init
    /\ [][NextLocks]_vars
    /\ \A c \in LockCallers : WF_vars(OperationRuns(c))
    /\ \A h \in Handlers : WF_vars(HandlerRuns(h))

-----------------------------------------------------------------------------
(* Claim about the two locks *)

\* caller c holds the Store's lock, for writing or for reading
HoldsStoreLock(c) ==
    \/ mu[1] = c /\ pc[c] \notin {"idle", "s_lock", "s_wait"}
    \/ c \in StoreReaders

\* C31: a caller is inside the Cache's lock only while it holds the
\* Store's lock, a handler takes the Cache's lock alone, the operations and
\* handlers that have returned hold no lock, and under fair scheduling with
\* an API server that answers, every operation and every handler that was
\* started returns: of the calls the budget allows, all have returned in
\* the end, and both locks are free.
C31_NoDeadlock ==
    /\ [](\A c \in LockCallers :
            (pc[c] \in {"c_rlock", "c_lookup", "c_runlock"} \/ c \in cmu.readers)
                => HoldsStoreLock(c))
    /\ [](cmu.readers \subseteq LockCallers /\ mu[1] \in LockCallers \cup {0})
    /\ []((\A c \in LockCallers : Idle(c)) => mu[1] = 0 /\ cmu.readers = {})
    /\ []((\A h \in Handlers : thr[h].pc = "idle") => cmu.w = "" /\ ~cmu.held)
    /\ <>[](/\ \A c \in LockCallers : Idle(c)
            /\ \A h \in Handlers : thr[h].pc = "idle"
            /\ mu[1] = 0
            /\ cmu = NewRWMutex)

\* a handler has announced itself at the Cache's lock and waits for a
\* caller that reads the Cache under the Store's lock
C31_Witness ==
    /\ \E h \in Handlers : thr[h].pc = "wait"
    /\ \E c \in LockCallers : c \in cmu.readers /\ mu[1] = c

====
